---- MODULE Spec2Model ----
(***************************************************************************)
(* Model of the BudgetPrimer core:                                         *)
(*   - FastBudgetParser._extract_allocations, the line-oriented extraction *)
(*     state machine (src/budgetprimer/parsers/fast_parser.py);            *)
(*   - FastBudgetParser._remove_suspicious_duplicates;                     *)
(*   - transform_to_post_veto / _apply_veto_change                         *)
(*     (src/budgetprimer/pipeline/transformer.py).                         *)
(*                                                                         *)
(* Text is modelled as sequences of one-character strings.  An input line  *)
(* is a record [indent, toks]: toks is the sequence of whitespace          *)
(* separated tokens of the line, indent says whether the raw line starts   *)
(* with whitespace.  The text of a line is LineText(ln), optionally        *)
(* preceded by blanks; every regular expression of the parser is           *)
(* translated to a predicate over the tokens of that text.                 *)
(***************************************************************************)
EXTENDS Integers, Sequences, FiniteSets, TLC

(***************************************************************************)
(* Strings                                                                 *)
(***************************************************************************)
OPERATING == <<"O","P","E","R","A","T","I","N","G">>
INVESTMENT == <<"I","N","V","E","S","T","M","E","N","T">>
CAPITAL == <<"C","A","P","I","T","A","L">>

\* Python None, for the text-valued variables.
NoneV == <<"<None>">>
\* A function-local name that has not been assigned yet.
Unbound == <<"<unbound>">>
\* The literals 'Unknown', 'UNKNOWN' and 'Unknown Program' of the parser.
Unknown == <<"U","n","k","n","o","w","n">>
UNKNOWN == <<"U","N","K","N","O","W","N">>
UnknownProgram == <<"U","n","k","n","o","w","n"," ","P","r","o","g","r","a","m">>

Letters == {"A","B","C","D","E","F","G","H","I","J","K","L","M","N","O","P","Q","R","S","T","U","V","W","X","Y","Z"}
DigitChar == <<"0","1","2","3","4","5","6","7","8","9">>

\* Decimal digits of a natural number, as str(n).
RECURSIVE DigitsOf(_)
DigitsOf(n) ==
    IF n < 10 THEN <<DigitChar[n + 1]>>
    ELSE DigitsOf(n \div 10) \o <<DigitChar[(n % 10) + 1]>>

\* The three digits of a thousands group.
Group3(n) == <<DigitChar[(n \div 100) + 1], DigitChar[((n \div 10) % 10) + 1], DigitChar[(n % 10) + 1]>>

\* A natural number written with thousands separators: 1500000 -> 1,500,000.
RECURSIVE WithCommas(_)
WithCommas(n) ==
    IF n < 1000 THEN DigitsOf(n)
    ELSE WithCommas(n \div 1000) \o <<",">> \o Group3(n % 1000)

(***************************************************************************)
(* Tokens.  k is the kind of the token:                                    *)
(*   "W"  a word of letters (cs);                                          *)
(*   "P"  letters followed by digits, such as AGR100 (cs);                 *)
(*   "N"  an amount token [\d,]+[A-Z]?: val written with thousands         *)
(*        separators, or a lone comma when val = NoDigits, followed by     *)
(*        the letter fund when fund # "";                                  *)
(*   "D"  digits followed by a period, such as 12. (val);                  *)
(*   "L"  a letter followed by a period, such as A. (fund);                *)
(*   "H"  a dash.                                                          *)
(***************************************************************************)
NoDigits == -1

W(cs) == [k |-> "W", cs |-> cs, val |-> 0, fund |-> ""]
P(cs) == [k |-> "P", cs |-> cs, val |-> 0, fund |-> ""]
N(val, fund) == [k |-> "N", cs |-> <<>>, val |-> val, fund |-> fund]
D(val) == [k |-> "D", cs |-> <<>>, val |-> val, fund |-> ""]
L(letter) == [k |-> "L", cs |-> <<>>, val |-> 0, fund |-> letter]
H == [k |-> "H", cs |-> <<>>, val |-> 0, fund |-> ""]

\* The [\d,]+ part of an amount token.
DigitText(t) == IF t.val = NoDigits THEN <<",">> ELSE WithCommas(t.val)

FundText(t) == IF t.fund = "" THEN <<>> ELSE <<t.fund>>

TokText(t) ==
    CASE t.k = "W" -> t.cs
      [] t.k = "P" -> t.cs
      [] t.k = "N" -> DigitText(t) \o FundText(t)
      [] t.k = "D" -> DigitsOf(t.val) \o <<".">>
      [] t.k = "L" -> <<t.fund, ".">>
      [] OTHER -> <<"-">>

\* The tokens joined by single blanks: line.strip() of the parser.
RECURSIVE JoinText(_)
JoinText(toks) ==
    IF toks = <<>> THEN <<>>
    ELSE IF Len(toks) = 1 THEN TokText(toks[1])
    ELSE TokText(toks[1]) \o <<" ">> \o JoinText(Tail(toks))

LineText(ln) == JoinText(ln.toks)

Line(indent, toks) == [indent |-> indent, toks |-> toks]

(***************************************************************************)
(* Character classes of the tokens                                         *)
(***************************************************************************)
\* The token matches [A-Z]+ entirely.
IsWord(t) == t.k = "W"
\* The token matches [\d,]+[A-Z]? entirely.
IsAmt(t) == t.k = "N"
\* The token matches [\d,]+[A-Z] entirely.
IsAmtWithFund(t) == t.k = "N" /\ t.fund # ""
\* The token matches [A-Z0-9]+ entirely.
IsAlnum(t) == t.k \in {"W", "P"} \/ (t.k = "N" /\ t.val >= 0 /\ t.val < 1000)
\* The token starts with [\d,]+[A-Z]? (pattern not anchored at its end).
StartsAmt(t) == t.k \in {"N", "D"}
\* The token contains a digit (\d).
HasDigit(t) == t.k \in {"P", "D"} \/ (t.k = "N" /\ t.val # NoDigits)
\* The token is a single letter [A-Z].
IsLetter(t) == t.k = "W" /\ Len(t.cs) = 1
\* The token ends with a letter: the longest [A-Z]+ ending the token.
EndsWithLetters(t) == t.k = "W" \/ (t.k = "N" /\ t.fund # "")
TrailingLetters(t) == IF t.k = "W" THEN t.cs ELSE <<t.fund>>

\* s[:n] of Python.
Prefix(s, n) == SubSeq(s, 1, IF Len(s) < n THEN Len(s) ELSE n)

(***************************************************************************)
(* FundType (src/budgetprimer/models/budget_allocation.py)                 *)
(***************************************************************************)
\* str.upper() on one character.
LowerLetters == <<"a","b","c","d","e","f","g","h","i","j","k","l","m","n","o","p","q","r","s","t","u","v","w","x","y","z">>
UpperLetters == <<"A","B","C","D","E","F","G","H","I","J","K","L","M","N","O","P","Q","R","S","T","U","V","W","X","Y","Z">>

UpperChar(c) ==
    IF \E i \in 1..26 : LowerLetters[i] = c
    THEN UpperLetters[CHOOSE i \in 1..26 : LowerLetters[i] = c]
    ELSE c

\* str.upper()
Upper(s) == [i \in 1..Len(s) |-> UpperChar(s[i])]

\* value.upper().replace(' ', '_')
Normalized(s) == [i \in 1..Len(s) |-> IF s[i] = " " THEN "_" ELSE UpperChar(s[i])]

\* a in b, for strings
IsSubstr(a, b) == \E i \in 1..(Len(b) - Len(a) + 1) : SubSeq(b, i, i + Len(a) - 1) = a

\* b.startswith(a)
StartsWith(b, a) == Len(a) <= Len(b) /\ SubSeq(b, 1, Len(a)) = a

\* The members of the enum FundType, in definition order.
FundTypeMembers == <<
    [name |-> <<"G","E","N","E","R","A","L">>, value |-> "A"],
    [name |-> <<"S","P","E","C","I","A","L">>, value |-> "B"],
    [name |-> <<"G","E","N","E","R","A","L","_","O","B","L","I","G","A","T","I","O","N","_","B","O","N","D">>, value |-> "C"],
    [name |-> <<"G","E","N","E","R","A","L","_","O","B","L","I","G","A","T","I","O","N","_","B","O","N","D","_","S","P","E","C","I","A","L">>, value |-> "D"],
    [name |-> <<"R","E","V","E","N","U","E","_","B","O","N","D">>, value |-> "E"],
    [name |-> <<"F","E","D","E","R","A","L","_","A","I","D","_","I","N","T","E","R","S","T","A","T","E">>, value |-> "J"],
    [name |-> <<"F","E","D","E","R","A","L","_","A","I","D","_","P","R","I","M","A","R","Y">>, value |-> "K"],
    [name |-> <<"F","E","D","E","R","A","L","_","A","I","D","_","S","E","C","O","N","D","A","R","Y">>, value |-> "L"],
    [name |-> <<"F","E","D","E","R","A","L","_","A","I","D","_","U","R","B","A","N">>, value |-> "M"],
    [name |-> <<"F","E","D","E","R","A","L">>, value |-> "N"],
    [name |-> <<"O","T","H","E","R","_","F","E","D","E","R","A","L">>, value |-> "P"],
    [name |-> <<"P","R","I","V","A","T","E","_","C","O","N","T","R","I","B","U","T","I","O","N","S">>, value |-> "R"],
    [name |-> <<"C","O","U","N","T","Y">>, value |-> "S"],
    [name |-> <<"T","R","U","S","T">>, value |-> "T"],
    [name |-> <<"I","N","T","E","R","D","E","P","A","R","T","M","E","N","T","A","L">>, value |-> "U"],
    [name |-> <<"A","R","P">>, value |-> "V"],
    [name |-> <<"R","E","V","O","L","V","I","N","G">>, value |-> "W"],
    [name |-> <<"O","T","H","E","R">>, value |-> "X"],
    [name |-> <<"U","N","K","N","O","W","N">>, value |-> "Z"] >>

FundUNKNOWN == "Z"

MemberIdx == 1..Len(FundTypeMembers)

\* The first member, in definition order, among the members at the indices
\* hits: the member a for loop over the enum returns.
FirstMember(hits) == FundTypeMembers[CHOOSE i \in hits : \A j \in hits : i <= j].value

\* FundType.from_string: value is a string; the result is the value (code
\* letter) of the member returned.
FromString(value) ==
    LET norm == Normalized(value)
        ByValue(m) == Len(value) = 1 /\ m.value = UpperChar(value[1])
        ByName(m) == m.name = norm
        ByPart(m) == StartsWith(m.name, norm) \/ IsSubstr(norm, m.name)
        valueHits == {i \in MemberIdx : ByValue(FundTypeMembers[i])}
        nameHits == {i \in MemberIdx : ByName(FundTypeMembers[i])}
        partHits == {i \in MemberIdx : ByPart(FundTypeMembers[i])}
    IN  IF value = <<>> THEN FundUNKNOWN
        ELSE IF valueHits # {} THEN FirstMember(valueHits)
        ELSE IF nameHits # {} THEN FirstMember(nameHits)
        ELSE IF partHits # {} THEN FirstMember(partHits)
        ELSE FundUNKNOWN

\* FundType.from_string on a fund letter of the parser ("" is the empty string).
from_string(letter) == FromString(IF letter = "" THEN <<>> ELSE <<letter>>)

(***************************************************************************)
(* BudgetAllocation.  Only the fields the parser and the override engine   *)
(* set are kept; ceiling, allocation_type, subcategory and metadata keep   *)
(* their defaults everywhere.  line_number 0 and positions NonePos stand   *)
(* for None.                                                               *)
(***************************************************************************)
NonePos == -1
NoLine == 0

BudgetAllocation(program_id, program_name, dept, section, fund_type, fiscal_year, amount, category, notes, line_number) ==
    [program_id |-> program_id, program_name |-> program_name,
     department_code |-> dept, department_name |-> dept,
     section |-> section, fund_type |-> fund_type,
     fiscal_year |-> fiscal_year, amount |-> amount,
     positions |-> NonePos, category |-> category,
     notes |-> notes, line_number |-> line_number]

FY1 == 2026
FY2 == 2027

(***************************************************************************)
(* The patterns of FastBudgetParser._compile_patterns and the inline       *)
(* patterns of _extract_allocations, over the tokens of the stripped line. *)
(* A match is a record: ok, the department group dept, the first amount    *)
(* group a1 with its letter group f1 ("" when the group is empty), has2    *)
(* when the optional second amount took part in the match, a2 and f2.      *)
(***************************************************************************)
NoMatch == [ok |-> FALSE, dept |-> NoneV, a1 |-> 0, f1 |-> "", has2 |-> FALSE, a2 |-> 0, f2 |-> ""]

Match1(dept, t1) == [ok |-> TRUE, dept |-> dept, a1 |-> t1.val, f1 |-> t1.fund, has2 |-> FALSE, a2 |-> 0, f2 |-> ""]

Match2(dept, t1, t2) == [ok |-> TRUE, dept |-> dept, a1 |-> t1.val, f1 |-> t1.fund, has2 |-> TRUE, a2 |-> t2.val, f2 |-> t2.fund]

\* 'category': ^\s*([A-Z])\.\s+(.+?)(?=\s*\([A-Z]+\)|$)
MatchCategory(toks) == Len(toks) >= 2 /\ toks[1].k = "L"

\* 'program': ^\s*\d+\.\s+([A-Z0-9]+)\s*[-–]\s*(.+)
MatchProgram(toks) == Len(toks) >= 4 /\ toks[1].k = "D" /\ IsAlnum(toks[2]) /\ toks[3].k = "H"

\* 'investment_capital', matched at the start of the line and not anchored
\* at its end:
\* ^\s*INVESTMENT\s+CAPITAL(?:\s+([A-Z0-9]+)\s+([\d,]+)([A-Z]?)(?:\s+([\d,]+)([A-Z]?))?)?
MatchInvestmentHeader(toks) ==
    /\ Len(toks) >= 2
    /\ toks[1].k = "W" /\ toks[1].cs = INVESTMENT
    /\ toks[2].k \in {"W", "P"} /\ StartsWith(toks[2].cs, CAPITAL)

MatchInvestmentCapital(toks) ==
    IF ~MatchInvestmentHeader(toks) THEN NoMatch
    ELSE IF toks[2].cs = CAPITAL /\ Len(toks) >= 4 /\ IsAlnum(toks[3]) /\ StartsAmt(toks[4])
         THEN IF toks[4].k = "N" /\ Len(toks) >= 5 /\ StartsAmt(toks[5])
              THEN Match2(TokText(toks[3]), toks[4], toks[5])
              ELSE Match1(TokText(toks[3]), toks[4])
         ELSE [NoMatch EXCEPT !.ok = TRUE]

\* 'indented_single_amount':
\* ^[\s\u00A0]*([A-Z]+)[\s\u00A0]+([\d,]+)([A-Z])(?:[\s\u00A0]*[A-Z])?$
MatchIndentedSingleAmount(toks) ==
    IF /\ Len(toks) \in {2, 3}
       /\ IsWord(toks[1]) /\ IsAmtWithFund(toks[2])
       /\ (Len(toks) = 3 => IsLetter(toks[3]))
    THEN Match1(toks[1].cs, toks[2])
    ELSE NoMatch

\* 'indented_amount', 'investment_line', 'investment_amount':
\* ^\s*([A-Z]+)\s+([\d,]+)([A-Z]?)(?:\s+([\d,]+)([A-Z]?))?\s*$
MatchIndentedAmount(toks) ==
    IF Len(toks) = 2 /\ IsWord(toks[1]) /\ IsAmt(toks[2])
    THEN Match1(toks[1].cs, toks[2])
    ELSE IF Len(toks) = 3 /\ IsWord(toks[1]) /\ IsAmt(toks[2]) /\ IsAmt(toks[3])
    THEN Match2(toks[1].cs, toks[2], toks[3])
    ELSE NoMatch

\* 'amount_with_fund_suffix':
\* ^\s*([A-Z]+)\s+([\d,]+)([A-Z])\s+([\d,]+)([A-Z]?)\s*$
MatchAmountWithFundSuffix(toks) ==
    IF Len(toks) = 3 /\ IsWord(toks[1]) /\ IsAmtWithFund(toks[2]) /\ IsAmt(toks[3])
    THEN Match2(toks[1].cs, toks[2], toks[3])
    ELSE NoMatch

\* 'OPERATING' in original_line
ContainsOperating(toks) ==
    \E j \in 1..Len(toks) : toks[j].k \in {"W", "P"} /\ IsSubstr(OPERATING, toks[j].cs)

\* line.startswith('OPERATING'), and the OPERATING alternative of 'section':
\* ^\s*(OPERATING|(INVESTMENT\s+CAPITAL)(?:...)?)
StartsWithOperating(toks) ==
    Len(toks) >= 1 /\ toks[1].k \in {"W", "P"} /\ StartsWith(toks[1].cs, OPERATING)

\* pdf_pattern: ^\s*OPERATING\s+([A-Z]+)\s+([\d,]+)([A-Z])\s+([A-Z])\s*$
\* f2 is group 4, the bare letter.
MatchPdfPattern(toks) ==
    IF /\ Len(toks) = 4
       /\ toks[1].k = "W" /\ toks[1].cs = OPERATING
       /\ IsWord(toks[2]) /\ IsAmtWithFund(toks[3]) /\ IsLetter(toks[4])
    THEN [Match1(toks[2].cs, toks[3]) EXCEPT !.f2 = toks[4].cs[1]]
    ELSE NoMatch

\* 'section_with_amounts':
\* ^\s*([A-Z]+)\s+([A-Z]+)\s+([\d,]+)([A-Z]?)(?:\s+([\d,]+)([A-Z]?))?\s*$
\* dept is group 2.
MatchSectionWithAmounts(toks) ==
    IF Len(toks) = 3 /\ IsWord(toks[1]) /\ IsWord(toks[2]) /\ IsAmt(toks[3])
    THEN Match1(toks[2].cs, toks[3])
    ELSE IF Len(toks) = 4 /\ IsWord(toks[1]) /\ IsWord(toks[2]) /\ IsAmt(toks[3]) /\ IsAmt(toks[4])
    THEN Match2(toks[2].cs, toks[3], toks[4])
    ELSE NoMatch

\* re.search(r'([A-Z]+)\s+([\d,]+)([A-Z]?)(?:\s+([\d,]+)([A-Z]?))?\s*$', line):
\* the leftmost match, so the two-amount reading wins when both apply; the
\* department group is the run of letters that ends the token before the
\* first amount.
MatchTrailingAmount(toks) ==
    LET n == Len(toks)
    IN  IF n >= 3 /\ EndsWithLetters(toks[n - 2]) /\ IsAmt(toks[n - 1]) /\ IsAmt(toks[n])
        THEN Match2(TrailingLetters(toks[n - 2]), toks[n - 1], toks[n])
        ELSE IF n >= 2 /\ EndsWithLetters(toks[n - 1]) /\ IsAmt(toks[n])
        THEN Match1(TrailingLetters(toks[n - 1]), toks[n])
        ELSE NoMatch

\* 'operating_line':
\* ^OPERATING\s+([A-Z]+)\s+([\d,]+)([A-Z])(?:\s+([\d,]+)([A-Z]?))?\s*$
MatchOperatingLine(toks) ==
    IF Len(toks) = 3 /\ toks[1].k = "W" /\ toks[1].cs = OPERATING
       /\ IsWord(toks[2]) /\ IsAmtWithFund(toks[3])
    THEN Match1(toks[2].cs, toks[3])
    ELSE IF Len(toks) = 4 /\ toks[1].k = "W" /\ toks[1].cs = OPERATING
            /\ IsWord(toks[2]) /\ IsAmtWithFund(toks[3]) /\ IsAmt(toks[4])
    THEN Match2(toks[2].cs, toks[3], toks[4])
    ELSE NoMatch

\* The optional department group ([A-Z]+)? of the two patterns below, for an
\* amount token at position j: the letters that end the token before it.
OptDept(toks, j) ==
    IF j >= 2 /\ EndsWithLetters(toks[j - 1]) THEN TrailingLetters(toks[j - 1]) ELSE NoneV

\* re.search(r'([A-Z]+)?\s*([\d,]+)([A-Z])(?:\s+[A-Z])?\s*$', line.strip())
MatchAmountFund(toks) ==
    LET n == Len(toks)
    IN  IF n >= 1 /\ IsAmtWithFund(toks[n])
        THEN Match1(OptDept(toks, n), toks[n])
        ELSE IF n >= 2 /\ IsAmtWithFund(toks[n - 1]) /\ IsLetter(toks[n])
        THEN Match1(OptDept(toks, n - 1), toks[n - 1])
        ELSE NoMatch

\* The letters that start a token of letters followed by digits, and the
\* number its digits write.
LeadingLetters(cs) ==
    SelectSeq(cs, LAMBDA c : \A d \in 1..10 : DigitChar[d] # c)

RECURSIVE TrailingNumber(_)
TrailingNumber(cs) ==
    IF cs = <<>> \/ \A d \in 1..10 : DigitChar[d] # cs[Len(cs)] THEN 0
    ELSE 10 * TrailingNumber(SubSeq(cs, 1, Len(cs) - 1))
         + (CHOOSE d \in 0..9 : DigitChar[d + 1] = cs[Len(cs)])

\* re.search(r'([A-Z]+)?\s*([\d,]+)(?:\s+)([A-Z])\s*$', line.strip()):
\* the letter stands apart from the digits.  \s* may be empty, so the
\* digits may be those that end a token of letters and digits (AGR100),
\* whose letters are then the department group.
MatchAmountSpaceFund(toks) ==
    LET n == Len(toks)
    IN  IF n >= 2 /\ IsAmt(toks[n - 1]) /\ toks[n - 1].fund = "" /\ IsLetter(toks[n])
        THEN [Match1(OptDept(toks, n - 1), toks[n - 1]) EXCEPT !.f1 = toks[n].cs[1]]
        ELSE IF n >= 2 /\ toks[n - 1].k = "P" /\ IsLetter(toks[n])
        THEN [Match1(LeadingLetters(toks[n - 1].cs), N(TrailingNumber(toks[n - 1].cs), ""))
                 EXCEPT !.f1 = toks[n].cs[1]]
        ELSE NoMatch

(***************************************************************************)
(* The extraction state machine: _extract_allocations, one line at a time. *)
(* The state of the loop is a record: the list allocations, the parsing    *)
(* context (current_dept, current_program, current_program_name,           *)
(* current_section, current_category), the index i of the next line, and   *)
(* the function-local names that one iteration may read after an earlier   *)
(* iteration assigned them: program_id, program_name, dept_code,           *)
(* fy26_amount and fy27_amount.                                            *)
(***************************************************************************)
NoneS == "None"
\* fy26_amount / fy27_amount before their first assignment.
UnboundAmt == -2

category_map(code) ==
    CASE code = "A" -> "Economic Development"
      [] code = "B" -> "Employment"
      [] code = "C" -> "Transportation"
      [] code = "D" -> "Environment"
      [] code = "E" -> "Health"
      [] code = "F" -> "Human Services"
      [] code = "G" -> "Education"
      [] code = "H" -> "Culture and Recreation"
      [] code = "I" -> "Public Safety"
      [] code = "J" -> "Individual Rights"
      [] code = "K" -> "Government Operations"
      [] OTHER -> "Other"

InitState ==
    [allocations |-> <<>>,
     current_dept |-> NoneV, current_program |-> NoneV,
     current_program_name |-> NoneV, current_section |-> NoneS,
     current_category |-> NoneS, i |-> 0,
     program_id |-> Unbound, program_name |-> Unbound, dept_code |-> Unbound,
     fy26_amount |-> UnboundAmt, fy27_amount |-> UnboundAmt,
     error |-> FALSE]

\* An exception that no handler inside the iteration catches: the handler
\* of lines 728-731 logs the warning and goes to the next line, with what
\* the iteration had assigned and appended before.
Raise(st) == [st EXCEPT !.error = TRUE]

\* x or y, for text values
OrText(x, y) == IF x = NoneV THEN y ELSE x
\* current_category or 'Uncategorized'
CategoryOf(st) == IF st.current_category = NoneS THEN "Uncategorized" ELSE st.current_category
\* letter or default, for fund letters
OrFund(f, default) == IF f = "" THEN default ELSE f
\* 'INVESTMENT' in current_section.upper(), for a section that is not None
IsInvestment(section) == section = "INVESTMENT CAPITAL"
SectionEnum(section) == IF IsInvestment(section) THEN "CAPITAL_IMPROVEMENT" ELSE "OPERATING"

\* allocations.append(rec) under the guard of the enclosing if
AppendIf(st, cond, rec) ==
    IF cond THEN [st EXCEPT !.allocations = Append(@, rec)] ELSE st

InvestmentNote(fund) == <<"Investment Capital - Fund Type: ", fund>>

\* Lines 182-187: category header.
CategoryHeader(st, toks) ==
    [st EXCEPT !.current_category = category_map(toks[1].fund)]

\* Lines 189-205: program header.
ProgramHeader(st, toks) ==
    LET pid == TokText(toks[2])
        pname == JoinText(SubSeq(toks, 4, Len(toks)))
    IN  [st EXCEPT !.program_id = pid, !.program_name = pname,
                   !.current_program = pid, !.current_program_name = pname,
                   !.current_dept = Prefix(pid, 3),
                   !.current_section = NoneS]

\* Lines 207-250: INVESTMENT CAPITAL header, with or without amounts.
InvestmentCapital(st, m) ==
    LET pname == OrText(st.current_program_name, UnknownProgram)
        pid == OrText(st.current_program, UNKNOWN)
        fy26_fund == OrFund(m.f1, "C")
        fy27_fund == OrFund(m.f2, fy26_fund)
        s1 == [st EXCEPT !.current_section = "INVESTMENT CAPITAL",
                         !.program_name = pname, !.program_id = pid]
        s2 == AppendIf(s1, m.a1 > 0,
                 BudgetAllocation(pid, pname, m.dept, "CAPITAL_IMPROVEMENT",
                                  from_string(fy26_fund), FY1, m.a1, CategoryOf(st), <<>>, st.i + 1))
    IN  AppendIf(s2, m.has2 /\ m.a2 > 0,
                 BudgetAllocation(pid, pname, m.dept, "CAPITAL_IMPROVEMENT",
                                  from_string(fy27_fund), FY2, m.a2, CategoryOf(st), <<>>, st.i + 1))

\* Line 253-254: the guard of the continuation branch.  original_line starts
\* with white space or contains a digit.
ContinuationGuard(st, ln) ==
    /\ st.current_section = "INVESTMENT CAPITAL"
    /\ st.current_program # NoneV
    /\ (ln.indent \/ \E j \in 1..Len(ln.toks) : HasDigit(ln.toks[j]))

CapitalRecord(st, m, fund, fy, amount) ==
    BudgetAllocation(st.current_program, st.current_program_name, m.dept,
                     "CAPITAL_IMPROVEMENT", from_string(fund), fy, amount,
                     CategoryOf(st), InvestmentNote(fund), st.i + 1)

\* Lines 256-393: continuation lines under INVESTMENT CAPITAL.  int('')
\* raises ValueError, which the handler of line 728 catches: the line is
\* left with what was appended before.
Continuation(st, toks) ==
    LET single == MatchIndentedSingleAmount(toks)
        m == MatchIndentedAmount(toks)
        fy26_fund == OrFund(m.f1, "A")
        fy27_fund == OrFund(m.f2, fy26_fund)
        s1 == AppendIf(st, m.a1 > 0, CapitalRecord(st, m, fy26_fund, FY1, m.a1))
    IN  IF single.ok
        THEN IF single.a1 = NoDigits THEN Raise(st)
             ELSE AppendIf(st, single.a1 > 0, CapitalRecord(st, single, single.f1, FY1, single.a1))
        ELSE IF m.ok
        THEN IF m.a1 = NoDigits THEN Raise(st)
             ELSE IF ~m.has2 THEN s1
             ELSE IF m.a2 = NoDigits THEN Raise(s1)
             ELSE AppendIf(s1, m.a2 > 0, CapitalRecord(st, m, fy27_fund, FY2, m.a2))
        ELSE st

\* The record of lines 414-440 and 523-552.
ContextRecord(st, pid, pname, dept, section, fund, fy, amount) ==
    BudgetAllocation(pid, pname, dept, section, from_string(fund), fy, amount,
                     CategoryOf(st), <<>>, st.i + 1)

\* FallbackRecord with the fiscal year off by one.
FallbackRecordNextYear(st, dept, section, fund, fy, amount) ==
    BudgetAllocation(OrText(st.current_program, Unknown),
                     OrText(st.current_program, UnknownProgram),
                     dept, section, from_string(fund), fy + 1, amount,
                     CategoryOf(st), <<>>, NoLine)

\* The record of lines 581-604 and 621-644: the program id stands for the
\* program name, and no line number is kept.
FallbackRecord(st, dept, section, fund, fy, amount) ==
    BudgetAllocation(OrText(st.current_program, Unknown),
                     OrText(st.current_program, UnknownProgram),
                     dept, section, from_string(fund), fy, amount,
                     CategoryOf(st), <<>>, NoLine)

\* Lines 609-646: the trailing amount search, then continue.  A missing
\* letter reads current_section.upper(), and so does line 618:
\* AttributeError when current_section is None.  int('') raises ValueError.
\* Both reach the handler of line 728.
TrailingAmount(st, toks) ==
    LET m == MatchTrailingAmount(toks)
        s1 == [st EXCEPT !.dept_code = m.dept, !.fy26_amount = m.a1]
        fy26_fund == OrFund(m.f1, IF IsInvestment(st.current_section) THEN "C" ELSE "A")
        fy27_amount == IF m.has2 THEN m.a2 ELSE m.a1
        fy27_fund == OrFund(m.f2, fy26_fund)
        s2 == [s1 EXCEPT !.fy27_amount = fy27_amount]
        section == SectionEnum(st.current_section)
        s3 == AppendIf(s2, m.a1 > 0, FallbackRecord(st, m.dept, section, fy26_fund, FY1, m.a1))
    IN  IF ~m.ok THEN st
        ELSE IF m.f1 = "" /\ st.current_section = NoneS THEN Raise(s1)
        ELSE IF st.current_section = NoneS THEN Raise(s2)
        ELSE IF m.a1 = NoDigits THEN Raise(s2)
        ELSE IF fy27_amount = NoDigits THEN Raise(s3)
        ELSE AppendIf(s3, fy27_amount > 0,
                      FallbackRecord(st, m.dept, section, fy27_fund, FY2, fy27_amount))

\* Lines 561-607: the plain section pattern.  Its amount groups are empty
\* for the OPERATING alternative, so dept_code, fy26_amount and fy27_amount
\* are the values left by an earlier line; reading an unassigned name
\* raises UnboundLocalError (handler of line 728), int('') raises
\* ValueError (handler of line 606).
SectionPlain(st, toks) ==
    LET s1 == [st EXCEPT !.current_section = "OPERATING"]
        s2 == AppendIf(s1, st.fy26_amount > 0,
                 FallbackRecord(st, st.dept_code, "OPERATING", "A", FY1, st.fy26_amount))
        s3 == AppendIf(s2, st.fy27_amount > 0,
                 FallbackRecord(st, st.dept_code, "OPERATING", "A", FY2, st.fy27_amount))
    IN  IF ~StartsWithOperating(toks) THEN TrailingAmount(st, toks)
        ELSE IF st.fy26_amount = UnboundAmt \/ st.fy27_amount = UnboundAmt THEN Raise(s1)
        ELSE IF st.fy26_amount = NoDigits \/ st.fy27_amount = NoDigits THEN TrailingAmount(s1, toks)
        ELSE TrailingAmount(s3, toks)

\* Lines 648-726: reached only when 'section_with_amounts' matched and an
\* amount had no digit, so current_section is 'OPERATING'.  The elif of
\* line 665 tests the stripped line for 30 leading blanks and never holds.
AmountLines(st, toks) ==
    LET op == MatchOperatingLine(toks)
        af == MatchAmountFund(toks)
        m == IF StartsWithOperating(toks) THEN op
             ELSE IF af.ok THEN af ELSE MatchAmountSpaceFund(toks)
        fy26_fund == OrFund(m.f1, "A")
        \* match[1] or '0': the tuple of 'operating_line' carries '' for an
        \* amount without digits, the groups of the other patterns carry ','.
        fy26_amount == IF StartsWithOperating(toks) /\ m.a1 = NoDigits THEN 0 ELSE m.a1
        \* match[3]: '0' for a missing second amount of 'operating_line',
        \* its digits otherwise; absent from the three-group matches.
        fy27_amount == IF ~StartsWithOperating(toks) THEN fy26_amount
                       ELSE IF ~m.has2 THEN 0
                       ELSE IF m.a2 = NoDigits THEN fy26_amount
                       ELSE m.a2
        fy27_fund == IF StartsWithOperating(toks) THEN OrFund(m.f2, fy26_fund) ELSE fy26_fund
        section == SectionEnum(st.current_section)
        s1 == [st EXCEPT !.dept_code = m.dept, !.fy26_amount = fy26_amount, !.fy27_amount = fy27_amount]
        s2 == AppendIf(s1, fy26_amount > 0,
                 BudgetAllocation(st.current_program, st.current_program_name, m.dept, section,
                                  from_string(fy26_fund), FY1, fy26_amount, CategoryOf(st), <<>>, NoLine))
    IN  IF m.ok /\ st.current_dept # NoneV /\ st.current_program # NoneV /\ st.current_section # NoneS
        THEN AppendIf(s2, fy27_amount > 0,
                 BudgetAllocation(st.current_program, st.current_program_name, m.dept, section,
                                  from_string(fy27_fund), FY2, fy27_amount, CategoryOf(st), <<>>, NoLine))
        ELSE st

\* Lines 496-559: 'section_with_amounts'.  A missing second amount repeats
\* the first one (line 509).
SectionWithAmounts(st, toks) ==
    LET m == MatchSectionWithAmounts(toks)
        fy26_fund == OrFund(m.f1, "A")
        fy27_amount == IF m.has2 THEN m.a2 ELSE m.a1
        fy27_fund == OrFund(m.f2, fy26_fund)
        pid == OrText(st.current_program, Unknown)
        pname == st.current_program_name
        s1 == [st EXCEPT !.current_section = "OPERATING", !.dept_code = m.dept,
                         !.fy26_amount = m.a1, !.fy27_amount = fy27_amount]
        emits == m.a1 > 0 \/ fy27_amount > 0
        s2 == IF emits THEN [s1 EXCEPT !.program_id = pid, !.program_name = pname] ELSE s1
        s3 == AppendIf(s2, m.a1 > 0,
                 ContextRecord(st, pid, pname, m.dept, "OPERATING", fy26_fund, FY1, m.a1))
    IN  IF ~m.ok THEN SectionPlain(st, toks)
        ELSE IF m.a1 = NoDigits \/ fy27_amount = NoDigits THEN AmountLines(s1, toks)
        ELSE AppendIf(s3, fy27_amount > 0,
                 ContextRecord(st, pid, pname, m.dept, "OPERATING", fy27_fund, FY2, fy27_amount))

\* Lines 447-492: a line that contains OPERATING sets the section; the PDF
\* shape (amount, letter, bare letter) appends one record without testing
\* the amount.
OperatingKeyword(st, toks) ==
    LET m == MatchPdfPattern(toks)
        s1 == [st EXCEPT !.current_section = "OPERATING"]
    IN  IF ~ContainsOperating(toks) THEN SectionWithAmounts(st, toks)
        ELSE IF ~m.ok THEN SectionWithAmounts(s1, toks)
        ELSE IF m.a1 = NoDigits THEN Raise(s1)
        ELSE AppendIf(s1, TRUE,
                 BudgetAllocation(st.current_program, st.current_program_name, m.dept, "OPERATING",
                                  from_string(m.f1), FY1, m.a1, CategoryOf(st), <<>>, st.i + 1))

\* Lines 395-445: 'amount_with_fund_suffix'.  program_id and program_name
\* are assigned only under fy26_num > 0; the second record reads them.
AmountWithFundSuffix(st, toks) ==
    LET m == MatchAmountWithFundSuffix(toks)
        fy27_fund == OrFund(m.f2, m.f1)
        section == IF st.current_section # NoneS /\ IsInvestment(st.current_section)
                   THEN "CAPITAL_IMPROVEMENT" ELSE "OPERATING"
        s1 == [st EXCEPT !.dept_code = m.dept, !.fy26_amount = m.a1, !.fy27_amount = m.a2]
        s2 == IF m.a1 > 0
              THEN [s1 EXCEPT !.program_id = OrText(st.current_program, Unknown),
                              !.program_name = st.current_program_name]
              ELSE s1
        s3 == AppendIf(s2, m.a1 > 0,
                 ContextRecord(st, s2.program_id, s2.program_name, m.dept, section, m.f1, FY1, m.a1))
    IN  IF ~m.ok THEN OperatingKeyword(st, toks)
        ELSE IF m.a1 = NoDigits \/ m.a2 = NoDigits THEN OperatingKeyword(s1, toks)
        ELSE IF m.a2 > 0 /\ s2.program_id = Unbound THEN Raise(s2)
        ELSE AppendIf(s3, m.a2 > 0,
                 ContextRecord(st, s2.program_id, s2.program_name, m.dept, section, fy27_fund, FY2, m.a2))

\* One iteration of the loop of lines 171-731.
ProcessLine(st, ln) ==
    LET toks == ln.toks
        inv == MatchInvestmentCapital(toks)
        s0 == [st EXCEPT !.error = FALSE]
        out == IF toks = <<>> THEN s0
               ELSE IF MatchCategory(toks) THEN CategoryHeader(s0, toks)
               ELSE IF MatchProgram(toks) THEN ProgramHeader(s0, toks)
               ELSE IF inv.ok THEN InvestmentCapital(s0, inv)
               ELSE IF ContinuationGuard(s0, ln) THEN Continuation(s0, toks)
               ELSE AmountWithFundSuffix(s0, toks)
    IN  [out EXCEPT !.i = st.i + 1]

\* _extract_allocations on a whole document
RECURSIVE ExtractFrom(_, _)
ExtractFrom(st, lines) ==
    IF lines = <<>> THEN st
    ELSE ExtractFrom(ProcessLine(st, Head(lines)), Tail(lines))

extract_allocations(lines) == ExtractFrom(InitState, lines).allocations

(***************************************************************************)
(* Input documents: the lines the extractor is fed, one per shape the      *)
(* classifier tells apart.                                                 *)
(***************************************************************************)
AGR == <<"A","G","R">>
TOTAL == <<"T","O","T","A","L">>
AGR100 == <<"A","G","R","1","0","0">>
ED10 == <<"E","D","1","0">>
AGRICULTURE == <<"A","G","R","I","C","U","L","T","U","R","E">>
SCHOOLS == <<"S","C","H","O","O","L","S">>

\* 1. AGR100 - AGRICULTURE
LnProgramAGR == Line(FALSE, <<D(1), P(AGR100), H, W(AGRICULTURE)>>)
\* 2. ED10 - SCHOOLS
LnProgramED == Line(FALSE, <<D(2), P(ED10), H, W(SCHOOLS)>>)
\* C. TOTAL
LnCategory == Line(FALSE, <<L("C"), W(TOTAL)>>)
LnBlank == Line(FALSE, <<>>)
\* TOTAL
LnText == Line(FALSE, <<W(TOTAL)>>)
\* INVESTMENT CAPITAL
LnInvestment == Line(FALSE, <<W(INVESTMENT), W(CAPITAL)>>)
\* INVESTMENT CAPITAL AGR 5,000 6,000B
LnInvestmentNoFund == Line(FALSE, <<W(INVESTMENT), W(CAPITAL), W(AGR), N(5000, ""), N(6000, "B")>>)
\* INVESTMENT CAPITAL AGR 5,000E 6,000
LnInvestmentFund == Line(FALSE, <<W(INVESTMENT), W(CAPITAL), W(AGR), N(5000, "E"), N(6000, "")>>)
\* OPERATING, flush left and indented
LnOperating == Line(FALSE, <<W(OPERATING)>>)
LnOperatingIndented == Line(TRUE, <<W(OPERATING)>>)
\* OPERATING AGR 5,000A A
LnPdf == Line(FALSE, <<W(OPERATING), W(AGR), N(5000, "A"), W(<<"A">>)>>)
\* OPERATING AGR 0A A
LnPdfZero == Line(FALSE, <<W(OPERATING), W(AGR), N(0, "A"), W(<<"A">>)>>)
\* OPERATING AGR 1,500,000A
LnOperatingOne == Line(FALSE, <<W(OPERATING), W(AGR), N(1500000, "A")>>)
\* OPERATING AGR 5,000B 6,000
LnOperatingTwo == Line(FALSE, <<W(OPERATING), W(AGR), N(5000, "B"), N(6000, "")>>)
\* OPERATING 7,000
LnOperatingAmount == Line(FALSE, <<W(OPERATING), N(7000, "")>>)
\* OPERATING AGR 5,000A ,
LnOperatingComma == Line(FALSE, <<W(OPERATING), W(AGR), N(5000, "A"), N(NoDigits, "")>>)
\* TOTAL AGR , 5,000A
LnTotalComma == Line(FALSE, <<W(TOTAL), W(AGR), N(NoDigits, ""), N(5000, "A")>>)
\* TOTAL AGR 5,000
LnTotalAmount == Line(FALSE, <<W(TOTAL), W(AGR), N(5000, "")>>)
\* AGR 250,000B
LnOneFund == Line(FALSE, <<W(AGR), N(250000, "B")>>)
\* AGR 5,000, indented
LnOneNoFund == Line(TRUE, <<W(AGR), N(5000, "")>>)
\* AGR 0
LnZero == Line(FALSE, <<W(AGR), N(0, "")>>)
\* AGR 5,000N N
LnBareLetter == Line(FALSE, <<W(AGR), N(5000, "N"), W(<<"N">>)>>)
\* AGR 5,000 6,000
LnTwoNoFund == Line(FALSE, <<W(AGR), N(5000, ""), N(6000, "")>>)
\* AGR 5,000A 6,000B
LnTwoFund == Line(FALSE, <<W(AGR), N(5000, "A"), N(6000, "B")>>)
\* AGR 0A 6,000
LnZeroThenAmount == Line(FALSE, <<W(AGR), N(0, "A"), N(6000, "")>>)
\* AGR 5,000A ,
LnFundComma == Line(FALSE, <<W(AGR), N(5000, "A"), N(NoDigits, "")>>)

Lines ==
    {LnProgramAGR, LnProgramED, LnCategory, LnBlank, LnText,
     LnInvestment, LnInvestmentNoFund, LnInvestmentFund,
     LnOperating, LnOperatingIndented, LnPdf, LnPdfZero,
     LnOperatingOne, LnOperatingTwo, LnOperatingAmount,
     LnOperatingComma, LnTotalComma, LnTotalAmount,
     LnOneFund, LnOneNoFund, LnZero, LnBareLetter,
     LnTwoNoFund, LnTwoFund, LnZeroThenAmount, LnFundComma}

(***************************************************************************)
(* _remove_suspicious_duplicates (fast_parser.py, lines 735-784)           *)
(***************************************************************************)
\* Line 767: the materiality threshold.
Threshold == 100000000

\* Line 746: the key of the dict groups.
GroupKey(alloc) == <<alloc.program_id, alloc.fiscal_year, alloc.section>>

\* The keys of a dict filled in the order of keys: first appearance order.
RECURSIVE DictKeys(_)
DictKeys(keys) ==
    IF keys = <<>> THEN <<>>
    ELSE LET rest == DictKeys(SubSeq(keys, 1, Len(keys) - 1))
             key == keys[Len(keys)]
         IN  IF \E j \in 1..Len(rest) : rest[j] = key THEN rest ELSE Append(rest, key)

\* Line 760: the key of the dict amount_groups.
AmountKey(alloc) == alloc.amount

\* groups[key] and amount_groups[amount]: the members in input order.
GroupMembers(allocs, key) == SelectSeq(allocs, LAMBDA alloc : GroupKey(alloc) = key)
AmountMembers(group, amount) == SelectSeq(group, LAMBDA alloc : AmountKey(alloc) = amount)

\* CleanAmountGroup with the threshold itself counted as exceeding it.
CleanAmountGroupAtThreshold(amount, amount_group) ==
    IF Len(amount_group) > 1 /\ amount >= Threshold
    THEN <<amount_group[1]>>
    ELSE amount_group

\* Lines 767-779: what one amount group adds to cleaned_allocations.
CleanAmountGroup(amount, amount_group) ==
    IF Len(amount_group) > 1 /\ amount > Threshold
    THEN <<amount_group[1]>>
    ELSE amount_group

\* Lines 758-779: one group, amount group after amount group.
RECURSIVE CleanAmounts(_, _)
CleanAmounts(group, amounts) ==
    IF amounts = <<>> THEN <<>>
    ELSE CleanAmountGroup(Head(amounts), AmountMembers(group, Head(amounts)))
         \o CleanAmounts(group, Tail(amounts))

CleanGroup(group) == CleanAmounts(group, DictKeys([j \in 1..Len(group) |-> AmountKey(group[j])]))

\* Lines 754-779: group after group.
RECURSIVE CleanGroups(_, _)
CleanGroups(allocs, keys) ==
    IF keys = <<>> THEN <<>>
    ELSE CleanGroup(GroupMembers(allocs, Head(keys))) \o CleanGroups(allocs, Tail(keys))

remove_suspicious_duplicates(allocs) ==
    IF allocs = <<>> THEN allocs
    ELSE CleanGroups(allocs, DictKeys([j \in 1..Len(allocs) |-> GroupKey(allocs[j])]))

(***************************************************************************)
(* transform_to_post_veto and _apply_veto_change (transformer.py).  A      *)
(* change is a dict: has is the set of its optional keys, among amount,    *)
(* fund_type, positions and notes; program_id and fiscal_year are always   *)
(* there.                                                                  *)
(***************************************************************************)
Change(pid, fy, has, fund_type, amount, positions, notes) ==
    [program_id |-> pid, fiscal_year |-> fy, has |-> has,
     fund_type |-> fund_type, amount |-> amount, positions |-> positions, notes |-> notes]

\* The keys of a change load_veto_changes builds (veto_processor.py 48-54).
AllChangeKeys == {"amount", "fund_type", "notes"}

\* Line 109: change.get('fund_type', 'A')
ChangeFundType(change) == IF "fund_type" \in change.has THEN change.fund_type ELSE "A"

\* Matches without the comparison of the fund types.
MatchesAnyFund(alloc, change) ==
    /\ alloc.program_id = change.program_id
    /\ alloc.fiscal_year = change.fiscal_year

\* Lines 114-116: the record is one of matches.
Matches(alloc, change) ==
    /\ alloc.program_id = change.program_id
    /\ alloc.fiscal_year = change.fiscal_year
    /\ alloc.fund_type = ChangeFundType(change)

\* NewAlloc with the amount of the change added to the amount of the record.
NewAllocDelta(alloc, change) ==
    [alloc EXCEPT
        !.amount = IF "amount" \in change.has THEN @ + change.amount ELSE @,
        !.fund_type = IF "fund_type" \in change.has THEN from_string(change.fund_type) ELSE @,
        !.positions = IF "positions" \in change.has THEN change.positions ELSE @,
        !.notes = IF "notes" \in change.has THEN change.notes ELSE @]

\* Lines 126-136: the copy of a matched record with the change applied.
NewAlloc(alloc, change) ==
    [alloc EXCEPT
        !.amount = IF "amount" \in change.has THEN change.amount ELSE @,
        !.fund_type = IF "fund_type" \in change.has THEN from_string(change.fund_type) ELSE @,
        !.positions = IF "positions" \in change.has THEN change.positions ELSE @,
        !.notes = IF "notes" \in change.has THEN change.notes ELSE @]

\* apply_veto_change that rewrites the first match only.
ApplyFirstMatchOnly(allocs, change) ==
    [idx \in 1..Len(allocs) |->
        IF Matches(allocs[idx], change) /\ \A j \in 1..(idx - 1) : ~Matches(allocs[j], change)
        THEN NewAlloc(allocs[idx], change) ELSE allocs[idx]]

\* Lines 100-141.  matches is computed before any record is replaced.
apply_veto_change(allocs, change) ==
    [idx \in 1..Len(allocs) |->
        IF Matches(allocs[idx], change) THEN NewAlloc(allocs[idx], change) ELSE allocs[idx]]

\* Line 119: not matches
NoMatches(allocs, change) == \A idx \in 1..Len(allocs) : ~Matches(allocs[idx], change)

\* NewList with the name bound to the list of the caller.
NewListAlias == FALSE

\* Line 84: post_veto_data = [alloc for alloc in pre_veto_data] builds a new
\* list object that holds the records of the base.
NewList == TRUE

\* Line 126: new_alloc = BudgetAllocation(**alloc.__dict__) is a new record
\* object; the assignments of lines 129-136 go to it.
NewRecord == TRUE

\* What the list object of the caller holds after one change, post being
\* the working list after it.  The working list holds the record objects of
\* the base until line 139 puts a new one in their place; it is the list of
\* the caller itself when shared.
CallerList(pre, post, shared) ==
    IF shared \/ ~NewRecord THEN SubSeq(post, 1, Len(pre)) ELSE pre

\* LoopTarget with every change applied to the base.
LoopTargetBase(pre, post) == pre

\* Line 88: the collection one iteration of the loop hands to
\* _apply_veto_change.
LoopTarget(pre, post) == post

\* transform_to_post_veto on whole lists; one_time is the list loaded from
\* the one-time appropriations file, empty without a file.
RECURSIVE ApplyChanges(_, _)
ApplyChanges(allocs, changes) ==
    IF changes = <<>> THEN allocs
    ELSE ApplyChanges(apply_veto_change(allocs, Head(changes)), Tail(changes))

transform_to_post_veto(pre, changes, one_time) == ApplyChanges(pre, changes) \o one_time

(***************************************************************************)
(* aggregate_by_category (src/budgetprimer/pipeline/processor.py).  A      *)
(* table is a sequence of rows; a row is a record with the columns         *)
(* category, fund_type and amount.  Missing is NaN / None in a grouping    *)
(* column.  Amounts are whole numbers, which float sums keep exact.  A     *)
(* share is the pair <<numerator, denominator>> of the exact quotient.     *)
(***************************************************************************)
Missing == "<NaN>"

Row(category, fund_type, amount) ==
    [category |-> category, fund_type |-> fund_type, amount |-> amount]

\* The value of a row in the grouping columns cols, in their order.
RowKey(row, cols) == [j \in 1..Len(cols) |-> row[cols[j]]]

\* Series.sum()
RECURSIVE SumAmounts(_)
SumAmounts(rows) ==
    IF rows = <<>> THEN 0 ELSE Head(rows).amount + SumAmounts(Tail(rows))

\* GroupRows with dropna left at its default: rows with a missing value in
\* a grouping column belong to no group.
GroupRowsDropNa(table, cols, key) ==
    SelectSeq(table, LAMBDA row : /\ RowKey(row, cols) = key
                                 /\ \A j \in 1..Len(cols) : key[j] # Missing)

\* Line 95: groupby(group_cols, dropna=False): the rows of one group; a
\* missing value is a key value like any other.
GroupRows(table, cols, key) ==
    SelectSeq(table, LAMBDA row : RowKey(row, cols) = key)

\* The keys of the groups that have rows.
GroupKeys(table, cols) ==
    {key \in {RowKey(table[j], cols) : j \in 1..Len(table)} : GroupRows(table, cols, key) # <<>>}

\* Lines 95-97: the subtotal of each group.
Subtotal(table, cols, key) == SumAmounts(GroupRows(table, cols, key))

\* PctOfTotal without the test of the total.
PctOfTotalUnguarded(amount, total) == <<amount * 100, total>>

\* Lines 102-105: (amount / total) * 100 when total > 0, else 0.
PctOfTotal(amount, total) == IF total > 0 THEN <<amount * 100, total>> ELSE <<0, 1>>

\* Line 101: total = agg_df[agg_col].sum(), the sum of the subtotals.
AggTotal(table, cols) ==
    LET keys == GroupKeys(table, cols)
        RECURSIVE SumOver(_)
        SumOver(S) == IF S = {} THEN 0
                      ELSE LET key == CHOOSE k \in S : TRUE
                           IN  Subtotal(table, cols, key) + SumOver(S \ {key})
    IN  SumOver(keys)

\* One row of the result.
AggRow(table, cols, key) ==
    [key |-> key, amount |-> Subtotal(table, cols, key),
     pct_of_total |-> PctOfTotal(Subtotal(table, cols, key), AggTotal(table, cols))]

\* Line 98: sort_values(by=agg_col, ascending=False).  The default sort is
\* not stable: groups with equal subtotals come in any order.
Descending(rows) == \A j \in 1..(Len(rows) - 1) : rows[j].amount >= rows[j + 1].amount

\* Lines 67-108: the tables aggregate_by_category can return for a table
\* that has the columns asked for.
aggregate_by_category(table, cols) ==
    LET keys == GroupKeys(table, cols)
        n == Cardinality(keys)
    IN  IF table = <<>> THEN {<<>>}
        ELSE {rows \in [1..n -> {AggRow(table, cols, key) : key \in keys}] :
                 /\ \A j, k \in 1..n : rows[j].key = rows[k].key => j = k
                 /\ Descending(rows)}

\* Rows of the aggregator: two categories and a missing one, two fund
\* types, amounts that cancel.
AggRows ==
    {Row(c, f, a) : c \in {"Education", "Health", Missing}, f \in {"A", "B"}, a \in {0, 500, -500}}

\* The grouping columns asked for.
GroupCols == {<<"category">>, <<"fund_type">>, <<"category", "fund_type">>}

\* Longest table aggregated.
MaxRows == 3

(***************************************************************************)
(* validate_budget_data (transformer.py, lines 176-220).  An error string  *)
(* is a record of the values it is formatted from: the index i of the      *)
(* record, the kind of the message, the field named by a missing-field     *)
(* message, and the program id and fiscal year named by the other two;     *)
(* NoneV and 0 stand for a value the message does not name.                *)
(***************************************************************************)
\* Line 193: the list with the one error of an empty collection.
NoAllocationsError ==
    [index |-> 0, kind |-> "No budget allocations provided", field |-> "",
     program_id |-> NoneV, fiscal_year |-> 0]

\* Lines 195-198
required_fields == <<"program_id", "program_name", "department_code", "fiscal_year", "amount", "section">>

\* IsFalsy with a number never counted as missing.
IsFalsyTextOnly(alloc, field) ==
    IF field \in {"program_id", "program_name", "department_code"}
    THEN alloc[field] = NoneV \/ alloc[field] = <<>>
    ELSE IF field \in {"fiscal_year", "amount"} THEN FALSE
    ELSE alloc[field] = NoneS

\* Line 203: not getattr(alloc, field, None).  Texts are false when None or
\* empty, numbers when 0; a member of BudgetSection is true.
IsFalsy(alloc, field) ==
    IF field \in {"program_id", "program_name", "department_code"}
    THEN alloc[field] = NoneV \/ alloc[field] = <<>>
    ELSE IF field \in {"fiscal_year", "amount"} THEN alloc[field] = 0
    ELSE alloc[field] = NoneS

\* Lines 202-204: the missing-field errors of one record, in field order.
MissingFieldErrors(idx, alloc) ==
    LET missing == SelectSeq(required_fields, LAMBDA field : IsFalsy(alloc, field))
    IN  [j \in 1..Len(missing) |->
            [index |-> idx, kind |-> "Missing required field", field |-> missing[j],
             program_id |-> NoneV, fiscal_year |-> 0]]

\* Lines 207-211
FundTypeErrors(idx, alloc, require) ==
    IF require /\ alloc.fund_type = FundUNKNOWN
    THEN <<[index |-> idx, kind |-> "Missing or invalid fund type", field |-> "",
            program_id |-> alloc.program_id, fiscal_year |-> alloc.fiscal_year]>>
    ELSE <<>>

\* IsNegative with the bound off by one.
IsNegativeBelowOne(amount) == amount < -1

\* Line 214: alloc.amount < 0
IsNegative(amount) == amount < 0

\* Lines 214-218
NegativeAmountErrors(idx, alloc) ==
    IF IsNegative(alloc.amount)
    THEN <<[index |-> idx, kind |-> "Negative amount", field |-> "",
            program_id |-> alloc.program_id, fiscal_year |-> alloc.fiscal_year]>>
    ELSE <<>>

\* Lines 200-218: the errors of the record at position idx (0-based index
\* idx - 1 in the messages).
RecordErrors(idx, alloc, require) ==
    MissingFieldErrors(idx - 1, alloc) \o FundTypeErrors(idx - 1, alloc, require)
        \o NegativeAmountErrors(idx - 1, alloc)

\* Lines 200-218: the errors of the records from position idx on.
RECURSIVE ErrorsFrom(_, _, _)
ErrorsFrom(allocs, idx, require) ==
    IF idx > Len(allocs) THEN <<>>
    ELSE RecordErrors(idx, allocs[idx], require) \o ErrorsFrom(allocs, idx + 1, require)

\* ValidFlag that lets one error pass.
ValidFlagLenient(errors) == Len(errors) <= 1

\* Line 220: len(errors) == 0
ValidFlag(errors) == Len(errors) = 0

\* Lines 176-220
validate_budget_data(allocs, require) ==
    IF allocs = <<>>
    THEN [valid |-> FALSE, errors |-> <<NoAllocationsError>>]
    ELSE [valid |-> ValidFlag(ErrorsFrom(allocs, 1, require)),
          errors |-> ErrorsFrom(allocs, 1, require)]

(***************************************************************************)
(* load_veto_changes (src/budgetprimer/pipeline/veto_processor.py).  The   *)
(* veto file is the sequence of the rows csv.DictReader yields: a row is   *)
(* a record of the cells Program, Type, fy26 ('FY 2026 Amount') and fy27   *)
(* ('FY 2027 Amount').  A cell is a text, or NoCell when the row is too    *)
(* short to have it (DictReader fills the key with None).                  *)
(***************************************************************************)
NoCell == <<"<None>", "cell">>

VetoRow(program, type, fy26, fy27) ==
    [Program |-> program, Type |-> type, fy26 |-> fy26, fy27 |-> fy27]

\* str.strip() on the whitespace of the cells, the space.
RECURSIVE LStrip(_)
LStrip(s) == IF s # <<>> /\ Head(s) = " " THEN LStrip(Tail(s)) ELSE s

RECURSIVE RStrip(_)
RStrip(s) == IF s # <<>> /\ s[Len(s)] = " " THEN RStrip(SubSeq(s, 1, Len(s) - 1)) ELSE s

StripText(s) == LStrip(RStrip(s))

IsUpperLetter(c) == \E k \in 1..26 : UpperLetters[k] = c
\* str.isalpha() on one character of a cell.
IsAlpha(c) == \E k \in 1..26 : UpperLetters[k] = c \/ LowerLetters[k] = c
IsDigitChar(c) == \E k \in 1..10 : DigitChar[k] = c

\* Lines 44, 59: amt.rstrip('ABCDEFGHIJKLMNOPQRSTUVWXYZ')
RECURSIVE RStripUpper(_)
RStripUpper(s) ==
    IF s # <<>> /\ IsUpperLetter(s[Len(s)]) THEN RStripUpper(SubSeq(s, 1, Len(s) - 1)) ELSE s

\* Lines 45, 60: amount_str.replace(',', '')
RECURSIVE RemoveCommas(_)
RemoveCommas(s) ==
    IF s = <<>> THEN <<>>
    ELSE IF Head(s) = "," THEN RemoveCommas(Tail(s))
    ELSE <<Head(s)>> \o RemoveCommas(Tail(s))

\* The number a text of digits writes.
RECURSIVE DigitsValue(_)
DigitsValue(s) ==
    IF s = <<>> THEN 0
    ELSE 10 * DigitsValue(SubSeq(s, 1, Len(s) - 1))
         + (CHOOSE k \in 0..9 : DigitChar[k + 1] = s[Len(s)])

\* int() raised ValueError.
IntError == -1

\* int(s) on a text of digits, commas, letters, spaces and slashes: the
\* spaces around the digits are dropped; anything but digits is an error.
ParseInt(s) ==
    LET t == StripText(s)
    IN  IF t # <<>> /\ \A k \in 1..Len(t) : IsDigitChar(t[k]) THEN DigitsValue(t) ELSE IntError

\* Lines 45, 60: int(amount_str.replace(',', '')) if amount_str else 0
CellAmount(amt) ==
    IF RStripUpper(amt) # <<>> THEN ParseInt(RemoveCommas(RStripUpper(amt))) ELSE 0

\* Lines 46, 61: amt[-1] if amt and amt[-1].isalpha() else 'A'
CellFundType(amt) == IF IsAlpha(amt[Len(amt)]) THEN amt[Len(amt)] ELSE "A"

\* Lines 53, 68: f'Veto change for {program_id} FY2026'
VetoChangeNote(pid, fy) ==
    <<"V","e","t","o"," ","c","h","a","n","g","e"," ","f","o","r"," ">> \o pid
        \o <<" ","F","Y">> \o DigitsOf(fy)

\* Lines 48-54, 63-69: the dict appended for a cell.
CellChange(pid, fy, amt) ==
    Change(pid, fy, AllChangeKeys, CellFundType(amt), CellAmount(amt), NonePos,
           VetoChangeNote(pid, fy))

\* Lines 42-54 and 57-69: what one amount cell of a row adds to changes,
\* cell being the value of row.get(...).  raised: .strip() of None, or int().
CellChanges(pid, fy, cell) ==
    IF cell = NoCell THEN [raised |-> TRUE, changes |-> <<>>]
    ELSE IF StripText(cell) = <<>> THEN [raised |-> FALSE, changes |-> <<>>]
    ELSE IF CellAmount(StripText(cell)) = IntError THEN [raised |-> TRUE, changes |-> <<>>]
    ELSE [raised |-> FALSE, changes |-> <<CellChange(pid, fy, StripText(cell))>>]

\* RowChanges reading only the rows whose Type cell says Operating.
RowChangesOfOperatingRows(row) ==
    LET pid == StripText(row.Program)
        c26 == CellChanges(pid, FY1, row.fy26)
        c27 == CellChanges(pid, FY2, row.fy27)
    IN  IF pid = <<>> \/ row.Type # <<"O","p","e","r","a","t","i","n","g">>
        THEN [raised |-> FALSE, changes |-> <<>>]
        ELSE [raised |-> c26.raised \/ c27.raised, changes |-> c26.changes \o c27.changes]

\* Lines 37-69: one iteration of the loop over the rows.  The first cell of
\* a row DictReader yields is never missing.
RowChanges(row) ==
    LET pid == StripText(row.Program)
        c26 == CellChanges(pid, FY1, row.fy26)
        c27 == CellChanges(pid, FY2, row.fy27)
    IN  IF pid = <<>> THEN [raised |-> FALSE, changes |-> <<>>]
        ELSE [raised |-> c26.raised \/ c27.raised, changes |-> c26.changes \o c27.changes]

\* Lines 36-69 on the rows from the first one left.
RECURSIVE RowsChanges(_)
RowsChanges(rows) ==
    IF rows = <<>> THEN [raised |-> FALSE, changes |-> <<>>]
    ELSE LET first == RowChanges(Head(rows))
             rest == RowsChanges(Tail(rows))
         IN  [raised |-> first.raised \/ rest.raised, changes |-> first.changes \o rest.changes]

\* Lines 15-76.  file.exists is whether open() finds the file; the handler
\* of line 74 returns the empty list for every exception.
load_veto_changes(file) ==
    IF ~file.exists \/ RowsChanges(file.rows).raised THEN <<>>
    ELSE RowsChanges(file.rows).changes

(***************************************************************************)
(* BudgetAllocation.to_dict (budget_allocation.py) and the tables built    *)
(* from it.  A table (DataFrame) is a record of its columns and its rows;  *)
(* a row is a record with one field for each column.                       *)
(***************************************************************************)
\* Lines 12-17: the value of a member of BudgetSection.
SectionValue(section) ==
    CASE section = "OPERATING" -> "Operating"
      [] section = "CAPITAL_IMPROVEMENT" -> "Capital Improvement"
      [] section = "ONE_TIME" -> "One-Time"
      [] OTHER -> "Unspecified"

\* Lines 100-130: FundType.category, on the code letter of the member.
fund_type_names ==
    [A |-> "General Funds", B |-> "Special Funds",
     C |-> "General Obligation Bond Fund",
     D |-> "General Obligation Bond Fund with Debt Service Cost to be Paid from Special Funds",
     E |-> "Revenue Bond Funds", J |-> "Federal Aid Interstate Funds",
     K |-> "Federal Aid Primary Funds", L |-> "Federal Aid Secondary Funds",
     M |-> "Federal Aid Urban Funds", N |-> "Federal Funds", P |-> "Other Federal Funds",
     R |-> "Private Contributions", S |-> "County Funds", T |-> "Trust Funds",
     U |-> "Interdepartmental Transfers", V |-> "American Rescue Plan Funds",
     W |-> "Revolving Funds", X |-> "Other Funds", Z |-> "Uncategorized Funds"]

FundCategory(fund_type) ==
    IF fund_type \in DOMAIN fund_type_names THEN fund_type_names[fund_type]
    ELSE "Uncategorized Funds"

\* Lines 174-193.  ceiling, allocation_type and subcategory are None and
\* metadata is empty in every record the parser and the override engine
\* build, so **self.metadata adds no key.
to_dict(alloc) ==
    [program_id |-> alloc.program_id,
     program_name |-> alloc.program_name,
     department_code |-> alloc.department_code,
     department_name |-> alloc.department_name,
     section |-> SectionValue(alloc.section),
     fund_type |-> alloc.fund_type,
     fiscal_year |-> alloc.fiscal_year,
     amount |-> alloc.amount,
     positions |-> alloc.positions,
     ceiling |-> NoneV,
     allocation_type |-> NoneV,
     category |-> alloc.category,
     subcategory |-> NoneV,
     notes |-> alloc.notes,
     fund_category |-> FundCategory(alloc.fund_type)]

\* The fields of the dataclass BudgetAllocation (lines 136-151).
DataclassFields ==
    {"program_id", "program_name", "department_code", "department_name", "section",
     "fund_type", "fiscal_year", "amount", "positions", "ceiling", "allocation_type",
     "category", "subcategory", "notes", "line_number", "metadata"}

\* pd.DataFrame(data) on a list of dicts that have the same keys;
\* pd.DataFrame() and pd.DataFrame([]) have no column.
DataFrame(data) ==
    [columns |-> IF data = <<>> THEN {} ELSE DOMAIN data[1], rows |-> data]

\* [alloc.to_dict() for alloc in allocations]
ToDicts(allocs) == [k \in 1..Len(allocs) |-> to_dict(allocs[k])]

\* The characters of the texts compared, in the order of their code points.
OrderedChars == <<" ", ",", "/">> \o DigitChar \o UpperLetters \o LowerLetters
CharRank(c) == CHOOSE k \in 1..Len(OrderedChars) : OrderedChars[k] = c

\* a <= b, for strings
RECURSIVE TextLeq(_, _)
TextLeq(a, b) ==
    IF a = <<>> THEN TRUE
    ELSE IF b = <<>> THEN FALSE
    ELSE IF Head(a) # Head(b) THEN CharRank(Head(a)) < CharRank(Head(b))
    ELSE TextLeq(Tail(a), Tail(b))

\* The rows of a table that satisfy a mask, in their order.
RECURSIVE KeepRows(_, _)
KeepRows(rows, mask) ==
    IF rows = <<>> THEN <<>>
    ELSE (IF mask[1] THEN <<Head(rows)>> ELSE <<>>)
         \o KeepRows(Tail(rows), [k \in 1..(Len(rows) - 1) |-> mask[k + 1]])

\* r1 sorts no later than r2 by the column col.
SortLeq(r1, r2, col) ==
    IF col = "line_number" THEN r1.line_number <= r2.line_number
    ELSE TextLeq(r1.program_id, r2.program_id)

\* df.sort_values(col): the orders the rows can come out in.  The default
\* sort is not stable, so rows with equal keys come in any order.
SortValues(rows, col) ==
    {[k \in 1..Len(rows) |-> rows[p[k]]] :
        p \in {q \in [1..Len(rows) -> 1..Len(rows)] :
                 /\ \A j, k \in 1..Len(rows) : q[j] = q[k] => j = k
                 /\ \A j \in 1..(Len(rows) - 1) : SortLeq(rows[q[j]], rows[q[j + 1]], col)}}

(***************************************************************************)
(* process_budget_data (src/budgetprimer/pipeline/processor.py 17-64)      *)
(***************************************************************************)
\* fiscal_year=None and section=None
NoYear == 0
NoSection == "<None>"

\* Lines 46-47 and 50-51: the two filters.
YearFilter(rows, fiscal_year) ==
    IF fiscal_year # NoYear
    THEN KeepRows(rows, [k \in 1..Len(rows) |-> rows[k].fiscal_year = fiscal_year])
    ELSE rows

SectionFilter(rows, section) ==
    IF section # NoSection /\ section # "all"
    THEN KeepRows(rows, [k \in 1..Len(rows) |-> rows[k].section = section])
    ELSE rows

\* Lines 54-58: the amount is numeric already; amount_millions is the
\* quotient amount / 1000000, kept as numerator and denominator.
DerivedColumns(row) ==
    row @@ [amount_millions |-> <<row.amount, 1000000>>,
            is_capital |-> (row.section = "Capital Improvement")]

\* Lines 17-64: the tables process_budget_data can return.
process_budget_data(allocs, fiscal_year, section) ==
    LET data == ToDicts(allocs)
        kept == SectionFilter(YearFilter(data, fiscal_year), section)
        rows == [k \in 1..Len(kept) |-> DerivedColumns(kept[k])]
    IN  IF data = <<>> THEN {DataFrame(<<>>)}
        ELSE {[columns |-> DOMAIN DerivedColumns(data[1]), rows |-> sorted] :
                 sorted \in SortValues(rows, "program_id")}

(***************************************************************************)
(* process_budget_with_vetoes (veto_processor.py 79-144).  veto_file is a  *)
(* record: given is whether the argument is a path (not None), exists is   *)
(* whether the path names a file, rows is what the file holds.  The result *)
(* is the dict returned: a record whose fields are its keys.               *)
(***************************************************************************)
VetoFile(given, exists, rows) == [given |-> given, exists |-> exists, rows |-> rows]

\* Line 117
LoadsVetoFile(veto_mode, veto_file) ==
    veto_mode \in {"apply", "both"} /\ veto_file.given /\ veto_file.exists

\* Lines 138-142: the keys added for veto_mode 'both'.
BothKeys(veto_mode, pre, post) ==
    IF veto_mode = "both"
    THEN [pre_veto_allocations |-> pre, post_veto_allocations |-> post]
    ELSE <<>>

\* Lines 79-144: the dicts process_budget_with_vetoes can return.
process_budget_with_vetoes(allocs, veto_mode, veto_file, fiscal_year, section) ==
    LET changes == load_veto_changes(veto_file)
        post == transform_to_post_veto(allocs, changes, <<>>)
    IN  IF ~LoadsVetoFile(veto_mode, veto_file) \/ changes = <<>>
        THEN {[pre_veto_df |-> pre_df] :
                 pre_df \in process_budget_data(allocs, fiscal_year, section)}
        ELSE {[pre_veto_df |-> pre_df, post_veto_df |-> post_df]
                  @@ BothKeys(veto_mode, allocs, post) :
                 pre_df \in process_budget_data(allocs, fiscal_year, section),
                 post_df \in process_budget_data(post, fiscal_year, section)}

\* main of src/scripts/process_budget.py, lines 187-193: the table main
\* goes on with, or KeyError when the key it reads is not in the result.
KeyError == [columns |-> {"<KeyError>"}, rows |-> <<>>]

MainDataFrame(veto_mode, result) ==
    IF veto_mode = "apply"
    THEN (IF "post_veto_df" \in DOMAIN result THEN result.post_veto_df ELSE KeyError)
    ELSE result.pre_veto_df

(***************************************************************************)
(* save_budget_data and main of src/scripts/parse_budget.py                *)
(***************************************************************************)
\* Lines 48-49
SortColumn(columns) == IF "line_number" \in columns THEN "line_number" ELSE "program_id"

\* Lines 39-43: the section filter; section is 'operating', 'capital' or 'all'.
SaveSectionFilter(rows, section) ==
    IF section # "all"
    THEN KeepRows(rows, [k \in 1..Len(rows) |->
             rows[k].section = (IF section = "operating" THEN "Operating"
                                ELSE "Capital Improvement")])
    ELSE rows

\* Line 90 of main and lines 30-59 of save_budget_data: the tables written
\* for one fiscal year.  Nothing is written (NoTable) when no row is left.
NoTable == [columns |-> {}, rows |-> <<>>, sort_column |-> "<None>"]

save_budget_data(allocs, fiscal_year, section) ==
    LET frame == DataFrame(ToDicts(allocs))
        df_year == SaveSectionFilter(
                       KeepRows(frame.rows, [k \in 1..Len(frame.rows) |->
                                                frame.rows[k].fiscal_year = fiscal_year]),
                       section)
    IN  IF df_year = <<>> THEN {NoTable}
        ELSE {[columns |-> frame.columns, rows |-> sorted,
               sort_column |-> SortColumn(frame.columns)] :
                 sorted \in SortValues(df_year, SortColumn(frame.columns))}

(***************************************************************************)
(* Inputs of the duplicate filter and of the override engine               *)
(***************************************************************************)
Rec(pid, section, fund, fy, amount) ==
    BudgetAllocation(pid, AGRICULTURE, AGR, section, fund, fy, amount, "Uncategorized", <<>>, NoLine)

\* Records of the duplicate filter: around the threshold, with fund types
\* that tell the members of one amount group apart.
DupRecords ==
    {Rec(AGR100, "OPERATING", "A", 2026, 150000000),
     Rec(AGR100, "OPERATING", "B", 2026, 150000000),
     Rec(AGR100, "OPERATING", "A", 2026, 100000000),
     Rec(AGR100, "OPERATING", "B", 2026, 100000000),
     Rec(AGR100, "OPERATING", "A", 2026, 50000000),
     Rec(AGR100, "OPERATING", "B", 2026, 50000000),
     Rec(AGR100, "OPERATING", "A", 2026, 100000001),
     Rec(AGR100, "OPERATING", "A", 2027, 150000000),
     Rec(AGR100, "CAPITAL_IMPROVEMENT", "A", 2026, 150000000),
     Rec(ED10, "OPERATING", "A", 2026, 150000000)}

\* Records of the override engine.
VetoRecords ==
    {Rec(AGR100, "OPERATING", "A", 2026, 1000),
     Rec(AGR100, "CAPITAL_IMPROVEMENT", "A", 2026, 2000),
     Rec(AGR100, "OPERATING", "B", 2026, 1000),
     Rec(AGR100, "OPERATING", "A", 2027, 1000),
     Rec(ED10, "OPERATING", "A", 2026, 1000),
     Rec(AGR100, "OPERATING", "Z", 2026, 1000)}

VetoNote == <<"Veto change">>
AllKeys == {"amount", "fund_type", "notes"}

Changes ==
    {Change(AGR100, 2026, AllKeys, "A", 300, NonePos, VetoNote),
     Change(AGR100, 2026, AllKeys, "A", 400, NonePos, VetoNote),
     Change(AGR100, 2026, {"amount"}, "", 0, NonePos, <<>>),
     Change(AGR100, 2026, {"fund_type", "positions"}, "A", 0, 5, <<>>),
     Change(AGR100, 2026, AllKeys, "B", 300, NonePos, VetoNote),
     Change(AGR100, 2027, AllKeys, "A", 300, NonePos, VetoNote),
     Change(ED10, 2026, AllKeys, "A", 400, NonePos, VetoNote),
     Change(AGR100, 2026, AllKeys, "Z", 300, NonePos, VetoNote),
     Change(AGR100, 2026, AllKeys, "G", 300, NonePos, VetoNote)}

\* Records of the validator: sound ones, and ones with a negative or zero
\* amount, an unknown fund type, no program id.
ValRecords ==
    {Rec(AGR100, "OPERATING", "A", 2026, 1000),
     Rec(AGR100, "OPERATING", "A", 2026, -1),
     Rec(ED10, "OPERATING", "B", 2027, -1),
     Rec(ED10, "OPERATING", "Z", 2027, -500),
     Rec(AGR100, "OPERATING", "Z", 2026, 1000),
     Rec(AGR100, "CAPITAL_IMPROVEMENT", "A", 2027, 0),
     Rec(NoneV, "OPERATING", "A", 2026, 1000),
     Rec(<<>>, "OPERATING", "Z", 2026, 0)}

\* Sequences over S of length at most n.
SeqsUpTo(S, n) == UNION {[1..m -> S] : m \in 0..n}

\* Records handed to process_budget_with_vetoes.
ProcRecords ==
    {Rec(AGR100, "OPERATING", "A", 2026, 1000),
     Rec(ED10, "OPERATING", "A", 2026, 1000),
     Rec(AGR100, "CAPITAL_IMPROVEMENT", "B", 2027, 2000)}

\* Rows of a veto file: amounts with and without a fund letter and with
\* thousands separators, a row without a program, a row that ends before
\* its last cell, a cell that is not an amount, cells with spaces around.
TypeOperating == <<"O","p","e","r","a","t","i","n","g">>
TypeCapital == <<"C","a","p","i","t","a","l">>

VetoRows ==
    {VetoRow(AGR100, TypeOperating, <<"3","0","0">>, <<"4","0","0","B">>),
     VetoRow(ED10, TypeCapital, <<>>, <<"1",",","5","0","0","A">>),
     VetoRow(<<>>, TypeOperating, <<"7","A">>, <<>>),
     VetoRow(ED10, TypeOperating, <<"5","0","0","A">>, NoCell),
     VetoRow(AGR100, <<>>, <<"N","/","A">>, <<>>),
     VetoRow(<<" ","E","D","1","0">>, TypeCapital, <<" ","7"," ","A"," ">>, <<" ">>)}

\* The texts a Type cell is given when a file is written again with other
\* Type cells.
TypeCells == {TypeOperating, TypeCapital, <<>>}

\* The values of the argument veto_file: None, a path that names no file,
\* a file of at most n rows.
VetoFiles(n) ==
    {VetoFile(FALSE, FALSE, <<>>), VetoFile(TRUE, FALSE, <<>>)}
        \cup {VetoFile(TRUE, TRUE, rows) : rows \in SeqsUpTo(VetoRows, n)}

VetoModes == {"none", "apply", "both"}

\* The values of the arguments (fiscal_year, section).
Filters == {<<NoYear, NoSection>>, <<FY1, "Operating">>}

\* Longest collection processed and longest veto file.
MaxProc == 2
MaxVetoRows == 2

\* Records of the parser, before their line numbers are set.
SaveRecords ==
    {Rec(ED10, "OPERATING", "A", 2026, 1000),
     Rec(AGR100, "OPERATING", "A", 2026, 2000),
     Rec(AGR100, "CAPITAL_IMPROVEMENT", "C", 2026, 3000),
     Rec(AGR100, "OPERATING", "B", 2027, 4000)}

\* The line numbers of the records of a document whose lines 1 and 3 are
\* program headers: line 232 and its like set line_number to i + 1, the
\* same for the records of one line; the fallback branches set none.
SaveLineNumbers == {NoLine, 2, 4}

\* The line numbers of a list of n records: the records are appended in the
\* order of the lines.
LineNumberings(n) ==
    {numbers \in [1..n -> SaveLineNumbers] :
        \A a, b \in 1..n :
            (a < b /\ numbers[a] # NoLine /\ numbers[b] # NoLine) => numbers[a] <= numbers[b]}

\* A list of _extract_allocations: the record of position k carries
\* numbers[k].
WithLineNumbers(allocs, numbers) ==
    [k \in 1..Len(allocs) |-> [allocs[k] EXCEPT !.line_number = numbers[k]]]

\* FastBudgetParser.parse, lines 108-116: the list parse returns for the
\* list extracted that _extract_allocations gave it.
ParseResult(extracted) == remove_suspicious_duplicates(extracted)

\* Longest list saved.
MaxSave == 3

\* Longest collection validated.
MaxVal == 3

\* The list load_one_time_appropriations returns for a one-row file.
OneTimeRecord ==
    [Rec(<<"A","G","R","9","9","9">>, "ONE_TIME", "A", 2026, 700) EXCEPT !.positions = 0]


\* Longest document read.
MaxLines == 3
\* Longest list given to the duplicate filter.
MaxDup == 3
\* Longest base collection and longest change list.
MaxBase == 2
MaxChanges == 2

(***************************************************************************)
(* State                                                                   *)
(***************************************************************************)
VARIABLES
    \* _extract_allocations
    allocations, current_dept, current_program, current_program_name,
    current_section, current_category, i,
    program_id, program_name, dept_code, fy26_amount, fy27_amount,
    \* the line of the last iteration, and whether the handler of line 728
    \* caught an exception of it
    line, line_error,
    \* _remove_suspicious_duplicates: its argument, its result, its position
    dup_allocations, cleaned_allocations, dup_pc,
    \* transform_to_post_veto: its arguments, its local list, the changes
    \* applied so far, warnings logged, position, and the call (1 or 2) with
    \* the result of the first call
    pre_veto_data, veto_changes, one_time_appropriations, post_veto_data,
    change_idx, veto_warnings, veto_pc, veto_call, first_post_veto,
    \* whether the name post_veto_data is bound to the list object of the caller
    post_is_base,
    \* aggregate_by_category: its arguments df and group_cols, its result,
    \* its position
    df, group_cols, agg_df, agg_pc,
    \* validate_budget_data: its arguments, the pair it returns, its position
    val_allocations, require_fund_type, val_result, val_pc,
    \* process_budget_with_vetoes: its arguments, the dict it returns, the
    \* table main of process_budget.py reads from it, its position
    proc_allocations, veto_mode, veto_file, proc_fiscal_year, proc_section,
    result, main_df, proc_pc,
    \* load_veto_changes called on veto_file: its result, its position
    loaded_changes, load_pc,
    \* save_budget_data: the list main of parse_budget.py holds, the
    \* arguments, the table written, its position
    save_allocations, save_fiscal_year, save_section, saved, save_pc

parserVars == <<allocations, current_dept, current_program, current_program_name,
                current_section, current_category, i,
                program_id, program_name, dept_code, fy26_amount, fy27_amount, line,
                line_error>>

dupVars == <<dup_allocations, cleaned_allocations, dup_pc>>

vetoVars == <<pre_veto_data, veto_changes, one_time_appropriations, post_veto_data,
              change_idx, veto_warnings, veto_pc, veto_call, first_post_veto, post_is_base>>

aggVars == <<df, group_cols, agg_df, agg_pc>>

valVars == <<val_allocations, require_fund_type, val_result, val_pc>>

procVars == <<proc_allocations, veto_mode, veto_file, proc_fiscal_year, proc_section,
              result, main_df, proc_pc, loaded_changes, load_pc>>

saveVars == <<save_allocations, save_fiscal_year, save_section, saved, save_pc>>

VARIABLES
    \* FundType.from_string: its argument, the value of the member it
    \* returns, its position
    fund_value, fund_member, fund_pc

fundVars == <<fund_value, fund_member, fund_pc>>

pipeVars == <<aggVars, valVars, procVars, saveVars, fundVars>>

vars == <<parserVars, dupVars, vetoVars, pipeVars>>

\* The loop state as ProcessLine takes it.
ParserState ==
    [allocations |-> allocations,
     current_dept |-> current_dept, current_program |-> current_program,
     current_program_name |-> current_program_name, current_section |-> current_section,
     current_category |-> current_category, i |-> i,
     program_id |-> program_id, program_name |-> program_name, dept_code |-> dept_code,
     fy26_amount |-> fy26_amount, fy27_amount |-> fy27_amount,
     error |-> line_error]

SetParserState(st) ==
    /\ allocations' = st.allocations
    /\ current_dept' = st.current_dept
    /\ current_program' = st.current_program
    /\ current_program_name' = st.current_program_name
    /\ current_section' = st.current_section
    /\ current_category' = st.current_category
    /\ i' = st.i
    /\ program_id' = st.program_id
    /\ program_name' = st.program_name
    /\ dept_code' = st.dept_code
    /\ fy26_amount' = st.fy26_amount
    /\ fy27_amount' = st.fy27_amount
    /\ line_error' = st.error

\* Lines 144-152: the state before the first line.
ParserInit ==
    /\ allocations = InitState.allocations
    /\ current_dept = InitState.current_dept
    /\ current_program = InitState.current_program
    /\ current_program_name = InitState.current_program_name
    /\ current_section = InitState.current_section
    /\ current_category = InitState.current_category
    /\ i = InitState.i
    /\ program_id = InitState.program_id
    /\ program_name = InitState.program_name
    /\ dept_code = InitState.dept_code
    /\ fy26_amount = InitState.fy26_amount
    /\ fy27_amount = InitState.fy27_amount
    /\ line_error = InitState.error
    /\ line = LnBlank

\* The duplicate filter before it is called on the list input.
DupIdle(input) ==
    /\ dup_allocations = input
    /\ cleaned_allocations = <<>>
    /\ dup_pc = "start"

\* The override engine before it is called on (pre, changes, one_time).
VetoIdle(pre, changes, one_time) ==
    /\ pre_veto_data = pre
    /\ veto_changes = changes
    /\ one_time_appropriations = one_time
    /\ post_veto_data = <<>>
    /\ change_idx = 0
    /\ veto_warnings = 0
    /\ veto_pc = "start"
    /\ veto_call = 1
    /\ first_post_veto = <<>>
    /\ post_is_base = FALSE

\* aggregate_by_category before it is called on (table, cols).
AggIdle(table, cols) ==
    /\ df = table
    /\ group_cols = cols
    /\ agg_df = <<>>
    /\ agg_pc = "start"

\* validate_budget_data before it is called on (input, require).
ValIdle(input, require) ==
    /\ val_allocations = input
    /\ require_fund_type = require
    /\ val_result = [valid |-> FALSE, errors |-> <<>>]
    /\ val_pc = "start"

\* process_budget_with_vetoes and load_veto_changes before they are called.
ProcIdle(allocs, mode, file, year, sect) ==
    /\ proc_allocations = allocs
    /\ veto_mode = mode
    /\ veto_file = file
    /\ proc_fiscal_year = year
    /\ proc_section = sect
    /\ result = <<>>
    /\ main_df = DataFrame(<<>>)
    /\ proc_pc = "start"
    /\ loaded_changes = <<>>
    /\ load_pc = "start"

\* save_budget_data before it is called.
SaveIdle(allocs, year, sect) ==
    /\ save_allocations = allocs
    /\ save_fiscal_year = year
    /\ save_section = sect
    /\ saved = NoTable
    /\ save_pc = "start"

ProcNotUsed == ProcIdle(<<>>, "none", VetoFile(FALSE, FALSE, <<>>), NoYear, NoSection)
SaveNotUsed == SaveIdle(<<>>, FY1, "all")

FundIdle(value) ==
    /\ fund_value = value
    /\ fund_member = FundUNKNOWN
    /\ fund_pc = "start"

FundNotUsed == FundIdle(<<>>)

PipeIdle ==
    AggIdle(<<>>, <<>>) /\ ValIdle(<<>>, TRUE) /\ ProcNotUsed /\ SaveNotUsed /\ FundNotUsed

(***************************************************************************)
(* The extractor                                                           *)
(***************************************************************************)
\* One iteration of the for loop over the lines of the document.
ReadLine(ln) ==
    /\ i < MaxLines
    /\ SetParserState(ProcessLine(ParserState, ln))
    /\ line' = ln
    /\ UNCHANGED <<dupVars, vetoVars, pipeVars>>

Init == ParserInit /\ DupIdle(<<>>) /\ VetoIdle(<<>>, <<>>, <<>>) /\ PipeIdle

Next == \E ln \in Lines : ReadLine(ln)

Spec == Init /\ [][Next]_vars

(***************************************************************************)
(* The duplicate filter, on every list of at most MaxDup records           *)
(***************************************************************************)
RemoveSuspiciousDuplicates ==
    /\ dup_pc = "start"
    /\ cleaned_allocations' = remove_suspicious_duplicates(dup_allocations)
    /\ dup_pc' = "done"
    /\ UNCHANGED <<dup_allocations, parserVars, vetoVars, pipeVars>>

DupInit ==
    /\ ParserInit
    /\ VetoIdle(<<>>, <<>>, <<>>)
    /\ PipeIdle
    /\ \E input \in SeqsUpTo(DupRecords, MaxDup) : DupIdle(input)

DupNext == RemoveSuspiciousDuplicates

DupSpec == DupInit /\ [][DupNext]_vars

(***************************************************************************)
(* The override engine, on every base of at most MaxBase records and every *)
(* list of at most MaxChanges changes; a second call takes the result of   *)
(* the first as its base.                                                  *)
(***************************************************************************)
\* Line 84: the copy of the base.
TransformStart ==
    /\ veto_pc = "start"
    /\ post_veto_data' = pre_veto_data
    /\ post_is_base' = ~NewList
    /\ change_idx' = 0
    /\ veto_pc' = "loop"
    /\ UNCHANGED <<pre_veto_data, veto_changes, one_time_appropriations, veto_warnings,
                   veto_call, first_post_veto, parserVars, dupVars, pipeVars>>

\* Lines 87-88 with _apply_veto_change: one change.
ApplyVetoChange ==
    /\ veto_pc = "loop"
    /\ change_idx < Len(veto_changes)
    /\ LET change == veto_changes[change_idx + 1]
           target == LoopTarget(pre_veto_data, post_veto_data)
       IN  /\ post_veto_data' = apply_veto_change(target, change)
           /\ veto_warnings' = IF NoMatches(target, change) THEN veto_warnings + 1 ELSE veto_warnings
    /\ pre_veto_data' = CallerList(pre_veto_data, post_veto_data', post_is_base)
    /\ change_idx' = change_idx + 1
    /\ UNCHANGED <<veto_changes, one_time_appropriations, veto_pc,
                   veto_call, first_post_veto, post_is_base, parserVars, dupVars, pipeVars>>

\* Lines 90-97: the one-time appropriations, then return.
TransformReturn ==
    /\ veto_pc = "loop"
    /\ change_idx = Len(veto_changes)
    /\ post_veto_data' = post_veto_data \o one_time_appropriations
    /\ pre_veto_data' = IF post_is_base THEN post_veto_data' ELSE pre_veto_data
    /\ veto_pc' = "done"
    /\ UNCHANGED <<veto_changes, one_time_appropriations, change_idx,
                   veto_warnings, veto_call, first_post_veto, post_is_base, parserVars, dupVars, pipeVars>>

\* The same changes applied to the result of the first call.
TransformAgain ==
    /\ veto_pc = "done"
    /\ veto_call = 1
    /\ first_post_veto' = post_veto_data
    /\ pre_veto_data' = post_veto_data
    /\ post_veto_data' = <<>>
    /\ change_idx' = 0
    /\ veto_warnings' = 0
    /\ veto_call' = 2
    /\ veto_pc' = "start"
    /\ post_is_base' = FALSE
    /\ UNCHANGED <<veto_changes, one_time_appropriations, parserVars, dupVars, pipeVars>>

VetoInit ==
    /\ ParserInit
    /\ DupIdle(<<>>)
    /\ PipeIdle
    /\ \E pre \in SeqsUpTo(VetoRecords, MaxBase), changes \in SeqsUpTo(Changes, MaxChanges),
          one_time \in {<<>>, <<OneTimeRecord>>} : VetoIdle(pre, changes, one_time)

VetoNext == TransformStart \/ ApplyVetoChange \/ TransformReturn \/ TransformAgain

VetoSpec == VetoInit /\ [][VetoNext]_vars

(***************************************************************************)
(* The aggregator, on every table of at most MaxRows rows                  *)
(***************************************************************************)
AggregateByCategory ==
    /\ agg_pc = "start"
    /\ agg_df' \in aggregate_by_category(df, group_cols)
    /\ agg_pc' = "done"
    /\ UNCHANGED <<df, group_cols, parserVars, dupVars, vetoVars, valVars, procVars, saveVars, fundVars>>

AggInit ==
    /\ ParserInit
    /\ DupIdle(<<>>)
    /\ VetoIdle(<<>>, <<>>, <<>>)
    /\ ValIdle(<<>>, TRUE)
    /\ ProcNotUsed
    /\ SaveNotUsed
    /\ FundNotUsed
    /\ \E table \in SeqsUpTo(AggRows, MaxRows), cols \in GroupCols : AggIdle(table, cols)

AggNext == AggregateByCategory

AggSpec == AggInit /\ [][AggNext]_vars

(***************************************************************************)
(* The validator, on every collection of at most MaxVal records            *)
(***************************************************************************)
ValidateBudgetData ==
    /\ val_pc = "start"
    /\ val_result' = validate_budget_data(val_allocations, require_fund_type)
    /\ val_pc' = "done"
    /\ UNCHANGED <<val_allocations, require_fund_type, parserVars, dupVars, vetoVars, aggVars,
                   procVars, saveVars, fundVars>>

ValInit ==
    /\ ParserInit
    /\ DupIdle(<<>>)
    /\ VetoIdle(<<>>, <<>>, <<>>)
    /\ AggIdle(<<>>, <<>>)
    /\ ProcNotUsed
    /\ SaveNotUsed
    /\ FundNotUsed
    /\ \E input \in SeqsUpTo(ValRecords, MaxVal), require \in BOOLEAN : ValIdle(input, require)

ValNext == ValidateBudgetData

ValSpec == ValInit /\ [][ValNext]_vars

(***************************************************************************)
(* process_budget_with_vetoes on every collection of at most MaxProc       *)
(* records and every veto file of at most MaxVetoRows rows, followed by    *)
(* main of process_budget.py; load_veto_changes on the same file           *)
(***************************************************************************)
LoadVetoChanges ==
    /\ load_pc = "start"
    /\ veto_file.given
    /\ loaded_changes' = load_veto_changes(veto_file)
    /\ load_pc' = "done"
    /\ UNCHANGED <<proc_allocations, veto_mode, veto_file, proc_fiscal_year, proc_section,
                   result, main_df, proc_pc>>
    /\ UNCHANGED <<parserVars, dupVars, vetoVars, aggVars, valVars, saveVars, fundVars>>

ProcessBudgetWithVetoes ==
    /\ proc_pc = "start"
    /\ result' \in process_budget_with_vetoes(proc_allocations, veto_mode, veto_file,
                                              proc_fiscal_year, proc_section)
    /\ proc_pc' = "returned"
    /\ UNCHANGED <<proc_allocations, veto_mode, veto_file, proc_fiscal_year, proc_section,
                   main_df, loaded_changes, load_pc>>
    /\ UNCHANGED <<parserVars, dupVars, vetoVars, aggVars, valVars, saveVars, fundVars>>

\* Lines 187-193 of process_budget.py
MainReadsResult ==
    /\ proc_pc = "returned"
    /\ main_df' = MainDataFrame(veto_mode, result)
    /\ proc_pc' = "done"
    /\ UNCHANGED <<proc_allocations, veto_mode, veto_file, proc_fiscal_year, proc_section,
                   result, loaded_changes, load_pc>>
    /\ UNCHANGED <<parserVars, dupVars, vetoVars, aggVars, valVars, saveVars, fundVars>>

ProcInit ==
    /\ ParserInit
    /\ DupIdle(<<>>)
    /\ VetoIdle(<<>>, <<>>, <<>>)
    /\ AggIdle(<<>>, <<>>)
    /\ ValIdle(<<>>, TRUE)
    /\ SaveNotUsed
    /\ FundNotUsed
    /\ \E allocs \in SeqsUpTo(ProcRecords, MaxProc), mode \in VetoModes,
          file \in VetoFiles(MaxVetoRows), filter \in Filters :
            ProcIdle(allocs, mode, file, filter[1], filter[2])

ProcNext == LoadVetoChanges \/ ProcessBudgetWithVetoes \/ MainReadsResult

ProcSpec == ProcInit /\ [][ProcNext]_vars

(***************************************************************************)
(* load_veto_changes and process_budget_with_vetoes on one collection and  *)
(* every veto file of at most MaxVetoRows rows                             *)
(***************************************************************************)
\* A collection with an operating and a capital improvement record that
\* rows of the veto files name.
TypeRecords ==
    <<Rec(AGR100, "OPERATING", "A", 2026, 1000),
      Rec(AGR100, "CAPITAL_IMPROVEMENT", "B", 2027, 2000)>>

TypeInit ==
    /\ ParserInit
    /\ DupIdle(<<>>)
    /\ VetoIdle(<<>>, <<>>, <<>>)
    /\ AggIdle(<<>>, <<>>)
    /\ ValIdle(<<>>, TRUE)
    /\ SaveNotUsed
    /\ FundNotUsed
    /\ \E mode \in VetoModes, file \in VetoFiles(MaxVetoRows) :
            ProcIdle(TypeRecords, mode, file, NoYear, NoSection)

TypeNext == LoadVetoChanges \/ ProcessBudgetWithVetoes \/ MainReadsResult

TypeSpec == TypeInit /\ [][TypeNext]_vars

(***************************************************************************)
(* save_budget_data on every list parse returns for at most MaxSave        *)
(* records                                                                 *)
(***************************************************************************)
SaveBudgetData ==
    /\ save_pc = "start"
    /\ saved' \in save_budget_data(save_allocations, save_fiscal_year, save_section)
    /\ save_pc' = "done"
    /\ UNCHANGED <<save_allocations, save_fiscal_year, save_section>>
    /\ UNCHANGED <<parserVars, dupVars, vetoVars, aggVars, valVars, procVars, fundVars>>

SaveInit ==
    /\ ParserInit
    /\ DupIdle(<<>>)
    /\ VetoIdle(<<>>, <<>>, <<>>)
    /\ AggIdle(<<>>, <<>>)
    /\ ValIdle(<<>>, TRUE)
    /\ ProcNotUsed
    /\ FundNotUsed
    /\ \E allocs \in SeqsUpTo(SaveRecords, MaxSave), year \in {FY1, FY2},
          sect \in {"all", "operating", "capital"} :
            \E numbers \in LineNumberings(Len(allocs)) :
                \* parse_budget.py, lines 80-84: main saves the list parse
                \* returns, and returns before saving when it is empty.
                /\ allocs # <<>>
                /\ SaveIdle(ParseResult(WithLineNumbers(allocs, numbers)), year, sect)

SaveNext == SaveBudgetData

SaveSpec == SaveInit /\ [][SaveNext]_vars

(***************************************************************************)
(* FundType.from_string on the empty string and on every single letter,    *)
(* in either case                                                          *)
(***************************************************************************)
FundStrings ==
    {<<>>} \cup {<<UpperLetters[n]>> : n \in 1..26} \cup {<<LowerLetters[n]>> : n \in 1..26}
        \cup {<<"G","e","n","e","r","a","l">>, <<"S","P","E","C","I","A","L">>,
              <<"o","t","h","e","r"," ","f","e","d","e","r","a","l">>,
              <<"B","o","n","d">>, <<"N","o","n","e">>}

FundTypeFromString ==
    /\ fund_pc = "start"
    /\ fund_member' = FromString(fund_value)
    /\ fund_pc' = "done"
    /\ UNCHANGED <<fund_value, parserVars, dupVars, vetoVars, aggVars, valVars, procVars, saveVars>>

FundInit ==
    /\ ParserInit
    /\ DupIdle(<<>>)
    /\ VetoIdle(<<>>, <<>>, <<>>)
    /\ AggIdle(<<>>, <<>>)
    /\ ValIdle(<<>>, TRUE)
    /\ ProcNotUsed
    /\ SaveNotUsed
    /\ \E value \in FundStrings : FundIdle(value)

FundNext == FundTypeFromString

FundSpec == FundInit /\ [][FundNext]_vars

(***************************************************************************)
(* Properties of the extractor                                             *)
(***************************************************************************)
\* The records the last iteration appended.
NewRecords == SubSeq(allocations', Len(allocations) + 1, Len(allocations'))

\* The amount tokens of a line, in order.
AmountTokens(ln) == SelectSeq(ln.toks, IsAmt)

\* C1: every record the extractor returns has a non-negative amount and one
\* of the two biennium years, 2026 or 2027, as its fiscal year.
C1_AmountAndFiscalYear ==
    \A k \in 1..Len(allocations) :
        /\ allocations[k].amount >= 0
        /\ allocations[k].fiscal_year \in {2026, 2027}

\* C1 witness: records of both years and of the least amount, from the
\* OPERATING PDF shape and from the trailing amount search.
C1_Witness ==
    /\ \E k \in 1..Len(allocations) : allocations[k].amount = 0
    /\ \E k \in 1..Len(allocations) : allocations[k].fiscal_year = 2027 /\ allocations[k].line_number = NoLine
    /\ \E k \in 1..Len(allocations) : allocations[k].fiscal_year = 2026 /\ allocations[k].amount > 0

\* C2: a line yields a record for fiscal year 2 only when it carries a
\* second amount token whose value is positive, and a line with a single
\* amount token yields at most one record, for fiscal year 1.
C2_SecondYearNeedsSecondAmount ==
    [][ /\ (\E k \in 1..Len(NewRecords) : NewRecords[k].fiscal_year = 2027)
            => (Len(AmountTokens(line')) >= 2 /\ AmountTokens(line')[2].val > 0)
        /\ Len(AmountTokens(line')) = 1
            => (Len(NewRecords) <= 1 /\ \A k \in 1..Len(NewRecords) : NewRecords[k].fiscal_year = 2026)
      ]_vars

\* C3: on a line whose amount tokens carry no fund letter, every record is
\* given fund A when the running section is OPERATING and fund C when it is
\* INVESTMENT CAPITAL.
C3_DefaultFundBySection ==
    [][ (/\ AmountTokens(line') # <<>>
         /\ \A j \in 1..Len(AmountTokens(line')) : AmountTokens(line')[j].fund = "")
        => \A k \in 1..Len(NewRecords) :
              NewRecords[k].fund_type =
                  (IF current_section' = "INVESTMENT CAPITAL" THEN "C" ELSE "A")
      ]_vars

\* C4: every record has a positive amount: no record comes from a zero
\* amount or from a bare fund letter.
C4_AmountPositive ==
    \A k \in 1..Len(allocations) : allocations[k].amount > 0

\* C5: one line appends at most two records, at most one for each fiscal
\* year.
C5_AtMostTwoRecordsPerLine ==
    [][ /\ Len(NewRecords) <= 2
        /\ \A j, k \in 1..Len(NewRecords) :
              NewRecords[j].fiscal_year = NewRecords[k].fiscal_year => j = k
      ]_vars

(***************************************************************************)
(* Properties of the duplicate filter                                      *)
(***************************************************************************)
\* The records of seq that share program, fiscal year, section and amount
\* with rec, in the order of seq.
SameFour(seq, rec) ==
    SelectSeq(seq, LAMBDA a : /\ a.program_id = rec.program_id
                             /\ a.fiscal_year = rec.fiscal_year
                             /\ a.section = rec.section
                             /\ a.amount = rec.amount)

Range(seq) == {seq[k] : k \in 1..Len(seq)}

\* C6: of the records that share program, fiscal year, section and amount,
\* only the first in input order survives when there are several and the
\* amount exceeds 100,000,000; in every other case all of them survive.
C6_KeepFirstOfLargeDuplicates ==
    dup_pc = "done" =>
        \A rec \in Range(dup_allocations) \cup Range(cleaned_allocations) :
            LET sub == SameFour(dup_allocations, rec)
                kept == SameFour(cleaned_allocations, rec)
            IN  IF Len(sub) > 1 /\ rec.amount > 100000000
                THEN kept = <<sub[1]>>
                ELSE kept = sub

\* C6 witness: two records above the threshold share the four values and
\* one was dropped, next to a record that survived.
C6_Witness ==
    /\ dup_pc = "done"
    /\ Len(dup_allocations) = 3
    /\ Len(cleaned_allocations) = 2
    /\ \E j, k \in 1..3 :
          /\ j < k
          /\ SameFour(dup_allocations, dup_allocations[j]) = <<dup_allocations[j], dup_allocations[k]>>
          /\ dup_allocations[j].fund_type # dup_allocations[k].fund_type

(***************************************************************************)
(* Properties of the override engine                                       *)
(***************************************************************************)
\* The key of the change is the key of the record; a change without a fund
\* type stands for the general fund A.
SameKey(alloc, change) ==
    /\ alloc.program_id = change.program_id
    /\ alloc.fiscal_year = change.fiscal_year
    /\ alloc.fund_type = (IF "fund_type" \in change.has THEN change.fund_type ELSE "A")

\* The step applies the change veto_changes[change_idx + 1].
AppliesChange == veto_pc = "loop" /\ change_idx' = change_idx + 1

\* C7: applying a change list to the result of applying it to a base yields
\* that result again, record for record and in the same order.  The
\* application is the call without a one-time appropriations file, as
\* process_budget_with_vetoes makes it.
C7_Idempotent ==
    (veto_call = 2 /\ veto_pc = "done" /\ one_time_appropriations = <<>>)
        => post_veto_data = first_post_veto

\* C7 witness: the second application has ended on a collection in which
\* two changes found a record to rewrite.
C7_Witness ==
    /\ veto_call = 2 /\ veto_pc = "done" /\ one_time_appropriations = <<>>
    /\ Len(veto_changes) = 2 /\ veto_warnings = 0
    /\ \E idx \in 1..Len(post_veto_data) : post_veto_data[idx].amount \in {300, 400}

\* C8: a change whose key matches no record leaves the collection as it
\* was and logs one warning; the loop goes on.
C8_NoMatchNoChange ==
    [][ (/\ AppliesChange
         /\ \A idx \in 1..Len(post_veto_data) :
               ~SameKey(post_veto_data[idx], veto_changes[change_idx + 1]))
        => /\ post_veto_data' = post_veto_data
           /\ veto_warnings' = veto_warnings + 1
           /\ veto_pc' = "loop"
      ]_vars

\* C8 witness: a change found nothing in a collection of two records.
C8_Witness ==
    /\ veto_call = 1 /\ veto_pc = "loop"
    /\ change_idx = 1 /\ veto_warnings = 1
    /\ Len(post_veto_data) = 2
    /\ \E idx \in 1..2 : /\ post_veto_data[idx].program_id = veto_changes[1].program_id
                         /\ post_veto_data[idx].fiscal_year = veto_changes[1].fiscal_year

\* C9: one change keeps length and order; a record with the key of the
\* change takes the amount, positions and notes the change provides and
\* keeps its other fields; every other record is unchanged.
C9_ReplaceInPlace ==
    [][ AppliesChange =>
        LET change == veto_changes[change_idx + 1]
        IN  /\ Len(post_veto_data') = Len(post_veto_data)
            /\ \A idx \in 1..Len(post_veto_data) :
                  IF SameKey(post_veto_data[idx], change)
                  THEN post_veto_data'[idx] =
                         [post_veto_data[idx] EXCEPT
                            !.amount = IF "amount" \in change.has THEN change.amount ELSE @,
                            !.positions = IF "positions" \in change.has THEN change.positions ELSE @,
                            !.notes = IF "notes" \in change.has THEN change.notes ELSE @]
                  ELSE post_veto_data'[idx] = post_veto_data[idx]
      ]_vars

\* C9 witness: the first change rewrote both records of its key.
C9_Witness ==
    /\ veto_call = 1 /\ veto_pc = "loop" /\ change_idx = 1
    /\ Len(post_veto_data) = 2
    /\ \A idx \in 1..2 : /\ SameKey(pre_veto_data[idx], veto_changes[1])
                         /\ post_veto_data[idx] # pre_veto_data[idx]
    /\ pre_veto_data[1] # pre_veto_data[2]

\* The changes of the list that carry the key of the record.
ChangesFor(alloc) == {k \in 1..Len(veto_changes) : SameKey(alloc, veto_changes[k])}

LastOf(S) == CHOOSE k \in S : \A j \in S : j <= k

\* C10: after the whole list, a record that some changes match has the
\* amount of the last of them in list order.
C10_LastChangeWins ==
    (veto_call = 1 /\ veto_pc = "done") =>
        \A idx \in 1..Len(pre_veto_data) :
            LET hits == ChangesFor(pre_veto_data[idx])
            IN  (hits # {} /\ "amount" \in veto_changes[LastOf(hits)].has)
                    => post_veto_data[idx].amount = veto_changes[LastOf(hits)].amount

\* C10 witness: two changes with one key and different amounts were applied
\* to a record of that key.
C10_Witness ==
    /\ veto_call = 1 /\ veto_pc = "done"
    /\ Len(veto_changes) = 2
    /\ veto_changes[1].amount # veto_changes[2].amount
    /\ "amount" \in veto_changes[1].has /\ "amount" \in veto_changes[2].has
    /\ \E idx \in 1..Len(pre_veto_data) :
          /\ ChangesFor(pre_veto_data[idx]) = {1, 2}
          /\ post_veto_data[idx].amount = veto_changes[2].amount

\* C11: no step of a call of transform_to_post_veto changes the base list:
\* its length, its records and their field values stay as the caller passed
\* them, while the result is built.
C11_BaseNotMutated ==
    [][veto_call' = veto_call => pre_veto_data' = pre_veto_data]_vars

\* C11 witness: the call has returned a collection that differs from the
\* base in a record and in length.
C11_Witness ==
    /\ veto_call = 1 /\ veto_pc = "done"
    /\ Len(pre_veto_data) = 2
    /\ Len(post_veto_data) = 3
    /\ post_veto_data[1] # pre_veto_data[1]
    /\ post_veto_data[2] = pre_veto_data[2]

(***************************************************************************)
(* Properties of the aggregator                                            *)
(***************************************************************************)
\* The rows of the result that carry the grouping values of a table row.
GroupsOf(row) == {j \in 1..Len(agg_df) : agg_df[j].key = RowKey(row, group_cols)}

\* C12: for a table that is not empty, the subtotals returned sum to the
\* total of the aggregated column, and every row of the table, one with a
\* missing grouping value included, is counted in exactly one group: one
\* result row carries its grouping values, and the subtotal of that row is
\* the sum over the table rows with those values.
C12_SubtotalsSumToTotal ==
    (agg_pc = "done" /\ df # <<>>) =>
        /\ SumAmounts(agg_df) = SumAmounts(df)
        /\ \A j \in 1..Len(df) :
              /\ Cardinality(GroupsOf(df[j])) = 1
              /\ \A g \in GroupsOf(df[j]) :
                    agg_df[g].amount =
                        SumAmounts(SelectSeq(df, LAMBDA row : RowKey(row, group_cols) = RowKey(df[j], group_cols)))
        /\ \A g \in 1..Len(agg_df) : \E j \in 1..Len(df) : g \in GroupsOf(df[j])

\* C12 witness: three rows in two groups, one of them the group of the
\* missing category, with a total that is not zero.
C12_Witness ==
    /\ agg_pc = "done"
    /\ Len(df) = 3 /\ Len(agg_df) = 2
    /\ group_cols = <<"category">>
    /\ \E g \in 1..2 : agg_df[g].key = <<Missing>> /\ agg_df[g].amount = 1000
    /\ SumAmounts(df) = 1500

\* C13: when the total of the aggregated column is 0, every group has the
\* share 0.
C13_ZeroTotalZeroShare ==
    (agg_pc = "done" /\ df # <<>> /\ SumAmounts(df) = 0) =>
        \A g \in 1..Len(agg_df) : agg_df[g].pct_of_total = <<0, 1>>

\* C13 witness: two groups whose subtotals, 500 and -500, cancel.
C13_Witness ==
    /\ agg_pc = "done"
    /\ SumAmounts(df) = 0
    /\ Len(agg_df) = 2
    /\ agg_df[1].amount = 500 /\ agg_df[2].amount = -500
    /\ agg_df[1].pct_of_total = <<0, 1>>

(***************************************************************************)
(* Properties of the validator                                             *)
(***************************************************************************)
\* C14: a collection that holds a record with a negative amount is reported
\* invalid, and one of the errors names the program id and the fiscal year
\* of that record.
C14_NegativeAmountReported ==
    val_pc = "done" =>
        \A j \in 1..Len(val_allocations) :
            val_allocations[j].amount < 0 =>
                /\ val_result.valid = FALSE
                /\ \E k \in 1..Len(val_result.errors) :
                      /\ val_result.errors[k].kind = "Negative amount"
                      /\ val_result.errors[k].index = j - 1
                      /\ val_result.errors[k].program_id = val_allocations[j].program_id
                      /\ val_result.errors[k].fiscal_year = val_allocations[j].fiscal_year

\* C14 witness: a collection whose only fault is one record with amount -1.
C14_Witness ==
    /\ val_pc = "done"
    /\ Len(val_allocations) = 2
    /\ val_allocations[2].amount = -1
    /\ Len(val_result.errors) = 1
    /\ val_result.valid = FALSE

\* The checks a record fails: its false required fields, its fund type
\* when one is required, its negative amount.
Violations(alloc) ==
    Cardinality({f \in {"program_id", "program_name", "department_code"} :
                    alloc[f] = NoneV \/ alloc[f] = <<>>})
    + (IF alloc.fiscal_year = 0 THEN 1 ELSE 0)
    + (IF alloc.amount = 0 THEN 1 ELSE 0)
    + (IF require_fund_type /\ alloc.fund_type = "Z" THEN 1 ELSE 0)
    + (IF alloc.amount < 0 THEN 1 ELSE 0)

\* C15: the validator returns a pair for every collection, the empty one
\* included; valid is true exactly when errors is empty; errors holds one
\* entry per violation, in record order.
C15_ValidIffNoErrors ==
    val_pc = "done" =>
        /\ val_result.valid \in BOOLEAN
        /\ val_result.valid <=> (val_result.errors = <<>>)
        /\ val_allocations = <<>> => Len(val_result.errors) = 1
        /\ \A j \in 1..Len(val_allocations) :
              Cardinality({k \in 1..Len(val_result.errors) : val_result.errors[k].index = j - 1})
                  = Violations(val_allocations[j])
        /\ \A k \in 1..(Len(val_result.errors) - 1) :
              val_result.errors[k].index <= val_result.errors[k + 1].index

\* C15 witness: three records, the first and the last with one violation
\* each, reported in that order.
C15_Witness ==
    /\ val_pc = "done"
    /\ Len(val_allocations) = 3
    /\ Len(val_result.errors) = 2
    /\ val_result.errors[1].index = 0
    /\ val_result.errors[2].index = 2
    /\ val_result.valid = FALSE

(***************************************************************************)
(* Properties of the parsing context                                       *)
(***************************************************************************)
\* The parsing context after the last line and before it.
Context == <<current_dept, current_program, current_program_name, current_section, current_category>>

\* C16: a line whose processing raises an error leaves the parsing context
\* (current department, program, section, category) as it was before the
\* line.
C16_ErrorKeepsContext ==
    [][line_error' => Context' = Context]_vars

\* The longest run of letters that starts a code.
RECURSIVE LetterPrefix(_)
LetterPrefix(code) ==
    IF code = <<>> \/ Head(code) \notin Letters THEN <<>>
    ELSE <<Head(code)>> \o LetterPrefix(Tail(code))

\* C20: a program header line emits no record, sets the current program id
\* and name to the parsed code and name, sets the current department to the
\* letter prefix of the code, and clears the current section.
C20_ProgramHeaderSetsContext ==
    [][MatchProgram(line'.toks) =>
          /\ NewRecords = <<>>
          /\ current_program' = TokText(line'.toks[2])
          /\ current_program_name' = JoinText(SubSeq(line'.toks, 4, Len(line'.toks)))
          /\ current_dept' = LetterPrefix(current_program')
          /\ current_section' = NoneS
      ]_vars

(***************************************************************************)
(* Properties of process_budget_with_vetoes, load_veto_changes and the     *)
(* exported rows                                                           *)
(***************************************************************************)
\* The veto file was found and read.
VetoFileRead == veto_file.given /\ veto_file.exists

\* C17: the result process_budget_with_vetoes returns always holds
\* pre_veto_df; when veto_mode is 'apply' or 'both' it holds post_veto_df as
\* well, and for 'both' pre_veto_allocations and post_veto_allocations,
\* whatever rows the veto file holds.
C17_ResultHasPostVeto ==
    proc_pc # "start" =>
        /\ "pre_veto_df" \in DOMAIN result
        /\ veto_mode \in {"apply", "both"} /\ VetoFileRead
              => "post_veto_df" \in DOMAIN result
        /\ veto_mode = "both" /\ VetoFileRead
              => {"pre_veto_allocations", "post_veto_allocations"} \subseteq DOMAIN result

\* The amount cells of a row, with their fiscal years, FY 2026 first.
AmountCells(row) == <<[fiscal_year |-> FY1, cell |-> row.fy26], [fiscal_year |-> FY2, cell |-> row.fy27]>>

\* The cell is there and holds more than spaces.
NonEmptyCell(cell) == cell # NoCell /\ StripText(cell) # <<>>

\* The number the digits of a cell write, separators and letters left out.
NumericValue(cell) == DigitsValue(SelectSeq(cell, IsDigitChar))

\* The letter that ends the cell, 'A' without one.
TrailingLetter(cell) ==
    LET t == StripText(cell) IN IF IsAlpha(t[Len(t)]) THEN t[Len(t)] ELSE "A"

\* One change for each non-empty amount cell of the row, none for a row
\* without a program.
ChangesOfRow(row) ==
    LET One(c) == IF NonEmptyCell(c.cell)
                  THEN <<[program_id |-> StripText(row.Program), fiscal_year |-> c.fiscal_year,
                          amount |-> NumericValue(c.cell), fund_type |-> TrailingLetter(c.cell)]>>
                  ELSE <<>>
    IN  IF StripText(row.Program) = <<>> THEN <<>>
        ELSE One(AmountCells(row)[1]) \o One(AmountCells(row)[2])

RECURSIVE ChangesOfRows(_)
ChangesOfRows(rows) ==
    IF rows = <<>> THEN <<>> ELSE ChangesOfRow(Head(rows)) \o ChangesOfRows(Tail(rows))

\* The program, fiscal year, amount and fund type of the changes loaded.
LoadedKeys ==
    [k \in 1..Len(loaded_changes) |->
        [program_id |-> loaded_changes[k].program_id,
         fiscal_year |-> loaded_changes[k].fiscal_year,
         amount |-> loaded_changes[k].amount,
         fund_type |-> loaded_changes[k].fund_type]]

\* C18: load_veto_changes returns, in row order, one change for each
\* non-empty amount cell of each row that has a program, the FY 2026 cell
\* before the FY 2027 cell, and nothing for the rows without a program;
\* each change has the fiscal year of its cell, the numeric value of the
\* cell, and its trailing letter as fund type, 'A' without one.
C18_OneChangePerAmountCell ==
    load_pc = "done" /\ veto_file.exists => LoadedKeys = ChangesOfRows(veto_file.rows)

\* C19: the row exported for a record has every field of the data model,
\* line_number among them, and the fund-category label, so that the table
\* save_budget_data writes is sorted by line_number: its rows are in the
\* order of the document.
C19_RowHasLineNumber ==
    save_pc = "done" /\ saved # NoTable =>
        /\ (DataclassFields \ {"metadata"}) \cup {"fund_category"} \subseteq saved.columns
        /\ saved.sort_column = "line_number"
        /\ \A j, k \in 1..Len(saved.rows) :
              j < k =>
                \E a, b \in 1..Len(save_allocations) :
                    /\ a < b
                    /\ to_dict(save_allocations[a]) = saved.rows[j]
                    /\ to_dict(save_allocations[b]) = saved.rows[k]

(***************************************************************************)
(* Properties of the line classifier                                       *)
(***************************************************************************)
\* The line is the single word OPERATING.
BareOperating(ln) == ln.toks = <<W(OPERATING)>>

\* C21: a line that holds only the word OPERATING appends no record and
\* leaves the current department, program, program name and category as
\* they were, whatever lines came before it.
C21_BareSectionHeader ==
    [][BareOperating(line') =>
          /\ NewRecords = <<>>
          /\ current_dept' = current_dept
          /\ current_program' = current_program
          /\ current_program_name' = current_program_name
          /\ current_category' = current_category
      ]_vars

\* The line is a department code followed by one or two amount tokens, and
\* it reaches the trailing amount search of line 610: the continuation
\* branch does not take it and 'amount_with_fund_suffix' does not emit
\* from it.
GenericAmountLine(ln) ==
    /\ MatchIndentedAmount(ln.toks).ok
    /\ ~ContinuationGuard(ParserState, ln)
    /\ LET m == MatchAmountWithFundSuffix(ln.toks)
       IN  m.ok => (m.a1 = NoDigits \/ m.a2 = NoDigits)

\* C22: a generic trailing amount line appends records only when the
\* current department, the current program and the current section are all
\* set before it; with any of the three unset it appends nothing.
C22_AmountLineNeedsContext ==
    [][GenericAmountLine(line') /\ NewRecords # <<>> =>
          /\ current_dept # NoneV
          /\ current_program # NoneV
          /\ current_section # NoneS
      ]_vars

\* The line is none of the three headers tried before the OPERATING
\* keyword: category, program, INVESTMENT CAPITAL.
NotAHeader(ln) ==
    /\ ln.toks # <<>>
    /\ ~MatchCategory(ln.toks)
    /\ ~MatchProgram(ln.toks)
    /\ ~MatchInvestmentCapital(ln.toks).ok

\* C23: after a line that carries the OPERATING keyword and is not a
\* category, program or INVESTMENT CAPITAL header, the current section is
\* OPERATING, also when the line is indented or holds digits and the
\* section before it is INVESTMENT CAPITAL.
C23_OperatingKeywordSetsSection ==
    [][ContainsOperating(line'.toks) /\ NotAHeader(line') => current_section' = "OPERATING"]_vars

\* The fund letter a token without a letter is given in the section.
ContextDefault(section) == IF section = "INVESTMENT CAPITAL" THEN "C" ELSE "A"

\* C24: on a line with two amount tokens of which the first carries a
\* letter and the second none, the record of the second token has the
\* default fund of the context (A in OPERATING, C in INVESTMENT CAPITAL),
\* not the letter of the first token.
C24_DefaultPerToken ==
    [][(/\ Len(AmountTokens(line')) = 2
        /\ AmountTokens(line')[1].fund # ""
        /\ AmountTokens(line')[2].fund = "")
       => \A k \in 1..Len(NewRecords) :
             NewRecords[k].fiscal_year = FY2
                => NewRecords[k].fund_type = ContextDefault(current_section')
      ]_vars

\* C25: the records appended for a line with amount tokens carry the
\* program id and the program name of the nearest program header above the
\* line, which are the current program and program name before the line.
C25_NearestProgramHeader ==
    [][AmountTokens(line') # <<>> /\ current_program # NoneV =>
          \A k \in 1..Len(NewRecords) :
              /\ NewRecords[k].program_id = current_program
              /\ NewRecords[k].program_name = current_program_name
      ]_vars

\* s is a subsequence of t: the members of s appear in t in the same order.
RECURSIVE IsSubsequence(_, _)
IsSubsequence(s, t) ==
    IF s = <<>> THEN TRUE
    ELSE IF t = <<>> THEN FALSE
    ELSE IF Head(s) = Head(t) THEN IsSubsequence(Tail(s), Tail(t))
    ELSE IsSubsequence(s, Tail(t))

\* No amount group of the input has more than one member above the threshold.
NoGroupQualifies(allocs) ==
    \A m, n \in 1..Len(allocs) :
        (m # n /\ GroupKey(allocs[m]) = GroupKey(allocs[n])
               /\ AmountKey(allocs[m]) = AmountKey(allocs[n]))
            => allocs[m].amount <= Threshold

\* C26: the result of the duplicate filter is a subsequence of its input,
\* the survivors in their input order, and it is the input itself when no
\* amount group qualifies for suppression.
C26_OutputIsSubsequence ==
    dup_pc = "done" =>
        /\ IsSubsequence(cleaned_allocations, dup_allocations)
        /\ NoGroupQualifies(dup_allocations) => cleaned_allocations = dup_allocations

(***************************************************************************)
(* Properties of FundType.from_string                                      *)
(***************************************************************************)
\* The 18 fund codes of the classification.
FundCodeLetters ==
    {"A", "B", "C", "D", "E", "J", "K", "L", "M", "N", "P", "R", "S", "T", "U", "V", "W", "X"}

\* C27: from_string maps each of the 18 fund code letters, in either case,
\* to the fund type with that code, and every other single letter and the
\* empty string to UNKNOWN.
C27_FromStringOnLetters ==
    (fund_pc = "done" /\ Len(fund_value) <= 1) =>
        fund_member = IF fund_value # <<>> /\ UpperChar(fund_value[1]) \in FundCodeLetters
                      THEN UpperChar(fund_value[1])
                      ELSE FundUNKNOWN

(***************************************************************************)
(* Properties of the Type column of the veto file                          *)
(***************************************************************************)
\* The files that differ from file in their Type cells only.
Retypings(file) ==
    {[file EXCEPT !.rows = [n \in 1..Len(file.rows) |-> [file.rows[n] EXCEPT !.Type = types[n]]]] :
        types \in [1..Len(file.rows) -> TypeCells]}

\* The change of changes that is the last one to match the record alloc.
IsLastMatch(alloc, changes, j) ==
    /\ Matches(alloc, changes[j])
    /\ \A n \in (j + 1)..Len(changes) : ~Matches(alloc, changes[n])

\* C28: the Type cells of the veto file have no effect.  A file that
\* differs in its Type cells only gives the same changes and the same
\* post-veto records, those process_budget_with_vetoes returns; and every
\* record with the program id, fiscal year and fund type of a change gets
\* the amount of the last such change, whatever its section, which it keeps.
C28_TypeColumnIgnored ==
    /\ load_pc = "done" =>
          \A other \in Retypings(veto_file) :
              LET other_changes == load_veto_changes(other)
              IN  /\ other_changes = loaded_changes
                  /\ transform_to_post_veto(proc_allocations, other_changes, <<>>)
                        = transform_to_post_veto(proc_allocations, loaded_changes, <<>>)
    /\ (proc_pc # "start" /\ "post_veto_allocations" \in DOMAIN result) =>
          LET changes == load_veto_changes(veto_file)
              post == result.post_veto_allocations
          IN  /\ Len(post) = Len(proc_allocations)
              /\ \A other \in Retypings(veto_file) :
                    post = transform_to_post_veto(proc_allocations, load_veto_changes(other), <<>>)
              /\ \A k \in 1..Len(post), j \in 1..Len(changes) :
                    IsLastMatch(proc_allocations[k], changes, j) =>
                        /\ post[k].amount = changes[j].amount
                        /\ post[k].section = proc_allocations[k].section

\* A file whose only row says Operating has rewritten a capital improvement
\* record, and the changes of the file have been loaded.
C28_Witness ==
    /\ proc_pc # "start"
    /\ load_pc = "done"
    /\ loaded_changes # <<>>
    /\ "post_veto_allocations" \in DOMAIN result
    /\ Len(veto_file.rows) = 1
    /\ veto_file.rows[1].Type = TypeOperating
    /\ \E k \in 1..Len(proc_allocations) :
          /\ proc_allocations[k].section = "CAPITAL_IMPROVEMENT"
          /\ result.post_veto_allocations[k].section = "CAPITAL_IMPROVEMENT"
          /\ result.post_veto_allocations[k].amount # proc_allocations[k].amount

(***************************************************************************)
(* Properties of the validator on zero amounts                             *)
(***************************************************************************)
\* The changes load_veto_changes builds from the cells "0<letter>" and
\* "<letter>" for the program, fiscal year and fund type of a record.
ZeroChanges(alloc) ==
    {CellChange(alloc.program_id, alloc.fiscal_year, cell) :
        cell \in {<<"0", alloc.fund_type>>, <<alloc.fund_type>>}}

\* C29: a collection reported valid has only amounts above 0; a record with
\* amount 0 is reported as missing the required field 'amount'; and the
\* collection after a change has set the amount of a record to 0 is
\* reported invalid.
C29_ValidMeansPositiveAmounts ==
    val_pc = "done" =>
        /\ val_result.valid => \A j \in 1..Len(val_allocations) : val_allocations[j].amount > 0
        /\ \A j \in 1..Len(val_allocations) :
              val_allocations[j].amount = 0 =>
                  \E k \in 1..Len(val_result.errors) :
                      /\ val_result.errors[k].kind = "Missing required field"
                      /\ val_result.errors[k].field = "amount"
                      /\ val_result.errors[k].index = j - 1
        /\ \A j \in 1..Len(val_allocations) :
              ~IsFalsy(val_allocations[j], "program_id") =>
                  \A change \in ZeroChanges(val_allocations[j]) :
                      LET post == transform_to_post_veto(val_allocations, <<change>>, <<>>)
                      IN  /\ post[j].amount = 0
                          /\ ~validate_budget_data(post, require_fund_type).valid

\* C29 witness: a collection of one record whose only fault is the amount 0
\* has been reported invalid with the one error, the missing amount.
C29_Witness ==
    /\ val_pc = "done"
    /\ Len(val_allocations) = 1
    /\ val_allocations[1].amount = 0
    /\ val_result.valid = FALSE
    /\ Len(val_result.errors) = 1
    /\ val_result.errors[1].field = "amount"

(***************************************************************************)
(* Properties of the lines that change the section                         *)
(***************************************************************************)
\* A line that is a program header, an INVESTMENT CAPITAL header or holds
\* the keyword OPERATING.
MayChangeSection(ln) ==
    \/ MatchProgram(ln.toks)
    \/ MatchInvestmentCapital(ln.toks).ok
    \/ ContainsOperating(ln.toks)

\* C30: the section changes only on a program header, an INVESTMENT
\* CAPITAL header and a line that holds OPERATING; every other line, the
\* amount lines included, leaves it as it was; a category header leaves
\* the program, the department and the section as they were.
C30_SectionChangesOnlyOnHeaders ==
    [][/\ ~MayChangeSection(line') => current_section' = current_section
       /\ MatchCategory(line'.toks) =>
             /\ current_program' = current_program
             /\ current_program_name' = current_program_name
             /\ current_dept' = current_dept
             /\ current_section' = current_section
      ]_vars

====
